---- MODULE Spec2Model ----
(***************************************************************************)
(* Verification model of the YAML dual-view editor (deantook/yameilo).     *)
(*                                                                         *)
(* Part 1: the value model, the annotated document nodes of the yaml       *)
(*         library, valueToNode and updateNodeValue (comment-preserving    *)
(*         reconciliation) of YAMLVisualizer.tsx.                          *)
(* Part 2: extractComments and the sync controller of YAMLVisualizer.tsx   *)
(*         together with the editor component of YAMLEditor.tsx.           *)
(***************************************************************************)
EXTENDS Integers, Sequences, FiniteSets, TLC

(***************************************************************************)
(* Bounds of the model.                                                    *)
(***************************************************************************)
\* largest size of an old (annotated) node drawn as an input, counting its
\* nodes and its comments
MaxOldWeight == 4
\* largest number of nodes of a new plain Value drawn as an input
MaxNewNodes == 3

\* mapping keys of the inputs
Keys == {"a", "b"}
\* the texts of the comments of the inputs, in the order they are placed
CommentNames == <<"c1", "c2", "c3", "c4">>

Min(a, b) == IF a < b THEN a ELSE b

(***************************************************************************)
(* Plain values (what doc.toJS() returns and what the form emits):         *)
(* null, numbers, strings, objects (ordered key/value lists) and arrays.   *)
(***************************************************************************)
NullV == [t |-> "null"]
NumV(n) == [t |-> "num", v |-> n]
StrV(s) == [t |-> "str", v |-> s]
MapV(items) == [t |-> "map", items |-> items]
SeqV(items) == [t |-> "seq", items |-> items]
EntryV(k, v) == [k |-> k, v |-> v]

\* the scalars inside the old documents and inside the new values of the
\* inputs: old and new scalars differ in value and in type, or are null
OldScalars == {NullV, NumV("1")}
NewScalars == {NullV, StrV("x")}

IsScalarV(v) == v.t \in {"null", "num", "str"}

\* a function: a value for which YAML.stringify throws ("Tag not resolved
\* for Function value"); the form and the parser never produce one
FuncV == [t |-> "func"]
\* YAML.stringify(value) returns (no part of the value is a function)
RECURSIVE CanStringify(_)
CanStringify(value) ==
    IF value.t = "func" THEN FALSE
    ELSE IF IsScalarV(value) THEN TRUE
    ELSE IF value.t = "map"
         THEN \A i \in 1..Len(value.items) : CanStringify(value.items[i].v)
         ELSE \A i \in 1..Len(value.items) : CanStringify(value.items[i])

(***************************************************************************)
(* Annotated nodes of the yaml library: Scalar, YAMLMap (items are Pairs   *)
(* of a key Scalar and a value node), YAMLSeq.  Every node has the slots   *)
(* commentBefore and comment; "" is an absent comment (falsy in JS).       *)
(* NoNode is JavaScript null.                                              *)
(***************************************************************************)
NoNode == [kind |-> "null"]
ScalarN(value, cb, c) ==
    [kind |-> "Scalar", value |-> value, commentBefore |-> cb, comment |-> c]
MapN(items, cb, c) ==
    [kind |-> "Map", items |-> items, commentBefore |-> cb, comment |-> c]
SeqN(items, cb, c) ==
    [kind |-> "Seq", items |-> items, commentBefore |-> cb, comment |-> c]
PairN(key, value, cb, c) ==
    [key |-> key, value |-> value, commentBefore |-> cb, comment |-> c]

isMap(n) == n.kind = "Map"
isSeq(n) == n.kind = "Seq"
isScalar(n) == n.kind = "Scalar"

\* the keys of a plain object / of a YAMLMap, in order
KeysOfValue(v) == [i \in 1..Len(v.items) |-> v.items[i].k]
KeysOfNode(n) == [i \in 1..Len(n.items) |-> n.items[i].key.value.v]
InSeq(x, s) == \E i \in 1..Len(s) : s[i] = x

(***************************************************************************)
(* doc.toJS(): the plain value of an annotated node.                       *)
(***************************************************************************)
RECURSIVE toJS(_)
toJS(n) ==
    IF n = NoNode THEN NullV
    ELSE IF isScalar(n) THEN n.value
    ELSE IF isMap(n)
         THEN MapV([i \in 1..Len(n.items) |->
                      EntryV(n.items[i].key.value.v, toJS(n.items[i].value))])
         ELSE SeqV([i \in 1..Len(n.items) |-> toJS(n.items[i])])

(***************************************************************************)
(* valueToNode: YAML.parseDocument(YAML.stringify(value)).contents, a      *)
(* fresh node of the value's shape that carries no comment; null when      *)
(* YAML.stringify throws.                                                  *)
(***************************************************************************)
RECURSIVE valueToNode(_)
\* variant: no node is made for null (an empty document), so the call fails
valueToNodeNullFails(value) ==
    IF value = NullV THEN NoNode
    ELSE IF IsScalarV(value) THEN ScalarN(value, "", "")
    ELSE IF value.t = "map"
         THEN MapN([i \in 1..Len(value.items) |->
                      PairN(ScalarN(StrV(value.items[i].k), "", ""),
                            valueToNode(value.items[i].v), "", "")],
                   "", "")
         ELSE SeqN([i \in 1..Len(value.items) |-> valueToNode(value.items[i])],
                   "", "")
valueToNode(value) ==
    IF ~CanStringify(value) THEN NoNode
    ELSE IF IsScalarV(value) THEN ScalarN(value, "", "")
    ELSE IF value.t = "map"
         THEN MapN([i \in 1..Len(value.items) |->
                      PairN(ScalarN(StrV(value.items[i].k), "", ""),
                            valueToNode(value.items[i].v), "", "")],
                   "", "")
         ELSE SeqN([i \in 1..Len(value.items) |-> valueToNode(value.items[i])],
                   "", "")

(***************************************************************************)
(* updateNodeValue: rebuild a node for newValue, keeping the comments of   *)
(* oldNode where the shapes match.                                         *)
(***************************************************************************)
RECURSIVE updateNodeValue(_, _)

\* variant: the old comment is not copied
CopyCommentLost(oldComment, newComment) == newComment
\* "if (old.x) new.x = old.x": a truthy old comment replaces the new one
CopyComment(oldComment, newComment) ==
    IF oldComment # "" THEN oldComment ELSE newComment

\* oldPairs.get(key): index of the last old Pair whose key Scalar holds the
\* string key, 0 when there is none
OldPairIndex(oldItems, key) ==
    LET hits == {i \in 1..Len(oldItems) :
                    /\ isScalar(oldItems[i].key)
                    /\ oldItems[i].key.value = StrV(key)}
    IN IF hits = {} THEN 0 ELSE CHOOSE i \in hits : \A j \in hits : j <= i

\* "(oldPair?.value as YAML.Node | undefined) || null"
OldPairValue(oldItems, key) ==
    IF OldPairIndex(oldItems, key) = 0
    THEN NoNode
    ELSE oldItems[OldPairIndex(oldItems, key)].value

\* the Pair built for one key of newValue (body of the Object.keys loop)
NewPair(oldItems, key, newValueNode) ==
    IF OldPairIndex(oldItems, key) = 0
    THEN PairN(valueToNode(StrV(key)), newValueNode, "", "")
    ELSE LET oldPair == oldItems[OldPairIndex(oldItems, key)]
             oldKey == oldPair.key
             newKey == [oldKey EXCEPT
                          !.commentBefore = CopyComment(oldKey.commentBefore, @),
                          !.comment = CopyComment(oldKey.comment, @)]
         IN PairN(newKey, newValueNode,
                  CopyComment(oldPair.commentBefore, ""),
                  CopyComment(oldPair.comment, ""))

HasValueNode(pair) == pair.value # NoNode
IsNode(n) == n # NoNode

\* the Pairs pushed by the Object.keys(newValue).forEach loop
NewPairs(oldMap, newValue) ==
    SelectSeq([i \in 1..Len(newValue.items) |->
                 NewPair(oldMap.items, newValue.items[i].k,
                         updateNodeValue(
                             OldPairValue(oldMap.items, newValue.items[i].k),
                             newValue.items[i].v))],
              HasValueNode)

\* variant: the old Pairs whose key is absent from newValue are kept
MapBranchKeepsOld(oldMap, newValue) ==
    MapN(NewPairs(oldMap, newValue)
           \o SelectSeq(oldMap.items,
                        LAMBDA p : ~InSeq(p.key.value.v, KeysOfValue(newValue))),
         CopyComment(oldMap.commentBefore, ""),
         CopyComment(oldMap.comment, ""))
\* variant: the loop runs over the old Pairs first, so retained keys keep
\* their old position and new keys are appended
MapBranchOldOrder(oldMap, newValue) ==
    MapN(SelectSeq(NewPairs(oldMap, MapV(
                     SelectSeq([i \in 1..Len(oldMap.items) |->
                                  EntryV(oldMap.items[i].key.value.v,
                                         IF InSeq(oldMap.items[i].key.value.v,
                                                  KeysOfValue(newValue))
                                         THEN (CHOOSE e \in {newValue.items[j] :
                                                               j \in 1..Len(newValue.items)} :
                                                 e.k = oldMap.items[i].key.value.v).v
                                         ELSE NullV)],
                               LAMBDA e : InSeq(e.k, KeysOfValue(newValue))))),
                   HasValueNode)
           \o SelectSeq(NewPairs(oldMap, newValue),
                        LAMBDA p : ~InSeq(p.key.value.v, KeysOfNode(oldMap))),
         CopyComment(oldMap.commentBefore, ""),
         CopyComment(oldMap.comment, ""))
\* the Map branch: old is a YAMLMap and newValue a plain object
MapBranch(oldMap, newValue) ==
    MapN(NewPairs(oldMap, newValue),
         CopyComment(oldMap.commentBefore, ""),
         CopyComment(oldMap.comment, ""))

\* "(oldSeq.items[index] as YAML.Node | undefined) || null"
OldItem(oldItems, index) ==
    IF index <= Len(oldItems) THEN oldItems[index] ELSE NoNode

\* one element of the Seq branch: reconcile, then copy the old item's comments
NewItem(oldItem, item) ==
    LET newItem == updateNodeValue(oldItem, item)
    IN IF newItem # NoNode /\ oldItem # NoNode
       THEN [newItem EXCEPT
               !.commentBefore = CopyComment(oldItem.commentBefore, @),
               !.comment = CopyComment(oldItem.comment, @)]
       ELSE newItem

\* the Seq branch: old is a YAMLSeq and newValue an array
\* variant: the items of the old sequence beyond the new length are kept
SeqBranchKeepsOld(oldSeq, newValue) ==
    LET items == [i \in 1..Len(newValue.items) |->
                    NewItem(OldItem(oldSeq.items, i), newValue.items[i])]
    IN SeqN(SelectSeq(items, IsNode)
              \o SubSeq(oldSeq.items, Len(newValue.items) + 1, Len(oldSeq.items)),
            CopyComment(oldSeq.commentBefore, ""),
            CopyComment(oldSeq.comment, ""))

SeqBranch(oldSeq, newValue) ==
    LET items == [i \in 1..Len(newValue.items) |->
                    NewItem(OldItem(oldSeq.items, i), newValue.items[i])]
    IN SeqN(SelectSeq(items, IsNode),
            CopyComment(oldSeq.commentBefore, ""),
            CopyComment(oldSeq.comment, ""))

\* variant: the two slots are copied crosswise
ScalarBranchSwapped(oldScalar, newScalar) ==
    [newScalar EXCEPT
       !.commentBefore = CopyComment(oldScalar.comment, @),
       !.comment = CopyComment(oldScalar.commentBefore, @)]
\* the Scalar branch, taken when old is a Scalar and the node made for
\* newValue is a Scalar too
ScalarBranch(oldScalar, newScalar) ==
    [newScalar EXCEPT
       !.commentBefore = CopyComment(oldScalar.commentBefore, @),
       !.comment = CopyComment(oldScalar.comment, @)]

updateNodeValue(oldNode, newValue) ==
    IF newValue.t = "null"
    THEN valueToNode(newValue)
    ELSE IF isMap(oldNode) /\ newValue.t = "map"
    THEN MapBranch(oldNode, newValue)
    ELSE IF isSeq(oldNode) /\ newValue.t = "seq"
    THEN SeqBranch(oldNode, newValue)
    ELSE IF isScalar(oldNode) /\ valueToNode(newValue) # NoNode
                              /\ isScalar(valueToNode(newValue))
    THEN ScalarBranch(oldNode, valueToNode(newValue))
    ELSE valueToNode(newValue)

(***************************************************************************)
(* The inputs: plain values and annotated nodes by number of nodes.        *)
(***************************************************************************)
\* the lists of n distinct keys
KeyLists(n) ==
    {ks \in [1..n -> Keys] : \A i, j \in 1..n : i # j => ks[i] # ks[j]}

RECURSIVE ValuesOfSize(_, _)
RECURSIVE ValueLists(_, _, _)
\* the lists of len values over the scalars leaves with size nodes in all
ValueLists(leaves, size, len) ==
    IF len = 0
    THEN IF size = 0 THEN {<<>>} ELSE {}
    ELSE UNION {{<<v>> \o rest : v \in ValuesOfSize(leaves, s),
                                rest \in ValueLists(leaves, size - s, len - 1)} :
                s \in 1..(size - (len - 1))}
\* the plain values over the scalars leaves with exactly size nodes
ValuesOfSize(leaves, size) ==
    IF size < 1 THEN {}
    ELSE IF size = 1 THEN leaves
    ELSE UNION {
           {MapV([i \in 1..len |-> EntryV(ks[i], vs[i])]) :
               ks \in KeyLists(len), vs \in ValueLists(leaves, size - 1, len)}
           \cup {SeqV(vs) : vs \in ValueLists(leaves, size - 1, len)} :
           len \in 1..(size - 1)}

\* the empty object and the empty array
EmptyValues == {MapV(<<>>), SeqV(<<>>)}

\* Annotate(v, first, count): the nodes of shape v that carry the comments
\* CommentNames[first .. first+count-1], one per slot, in document order
RECURSIVE Annotate(_, _, _)
RECURSIVE AnnotateItems(_, _, _, _)
\* a node's own two slots filled with own \in 0..2 comments
OwnSlots(first, own) ==
    IF own = 0 THEN {<<"", "">>}
    ELSE IF own = 1 THEN {<<CommentNames[first], "">>, <<"", CommentNames[first]>>}
    ELSE {<<CommentNames[first], CommentNames[first + 1]>>}

\* the item lists of a collection value (isMapV: Pairs, else nodes)
AnnotateItems(isMapV, items, first, count) ==
    IF Len(items) = 0
    THEN IF count = 0 THEN {<<>>} ELSE {}
    ELSE UNION {
           {<<hd>> \o tl :
               hd \in (IF isMapV
                       THEN UNION {
                              {PairN(ScalarN(StrV(items[1].k), ks[1], ks[2]), vn, "", "") :
                                  ks \in OwnSlots(first, kc),
                                  vn \in Annotate(items[1].v, first + kc, here - kc)} :
                              kc \in 0..Min(2, here)}
                       ELSE Annotate(items[1], first, here)),
               tl \in AnnotateItems(isMapV, Tail(items), first + here, count - here)} :
           here \in 0..count}

Annotate(v, first, count) ==
    IF IsScalarV(v)
    THEN IF count > 2 THEN {}
         ELSE {ScalarN(v, cs[1], cs[2]) : cs \in OwnSlots(first, count)}
    ELSE UNION {
           {IF v.t = "map" THEN MapN(its, cs[1], cs[2]) ELSE SeqN(its, cs[1], cs[2]) :
               cs \in OwnSlots(first, own),
               its \in AnnotateItems(v.t = "map", v.items, first + own, count - own)} :
           own \in 0..Min(2, count)}

\* the old nodes of the inputs ("no old node" among them): every shape with
\* every placement of as many comments as the weight leaves room for
OldShapes(n) ==
    IF n = 1 THEN OldScalars \cup EmptyValues ELSE ValuesOfSize(OldScalars, n)
OldNodes ==
    {NoNode} \cup
    UNION {UNION {UNION {Annotate(v, 1, c) : v \in OldShapes(n)} :
                    c \in 0..Min(MaxOldWeight - n, Len(CommentNames))} :
             n \in 1..MaxOldWeight}
\* the new values of the inputs
NewValues ==
    EmptyValues \cup UNION {ValuesOfSize(NewScalars, n) : n \in 1..MaxNewNodes}

(***************************************************************************)
(* extractComments: the path -> comment map of a document.  The map is a   *)
(* JavaScript Map: a list of entries in insertion order; set() on a known  *)
(* path replaces the text in place.  A comment of blanks only is BlankC.   *)
(***************************************************************************)
BlankC == " "
\* commentText.trim()
Trim(c) == IF c = BlankC THEN "" ELSE c

\* comments.set(path, text)
MapSet(comments, path, text) ==
    IF \E i \in 1..Len(comments) : comments[i].path = path
    THEN [i \in 1..Len(comments) |->
            IF comments[i].path = path THEN [path |-> path, text |-> text]
            ELSE comments[i]]
    ELSE Append(comments, [path |-> path, text |-> text])

\* "if (commentText.trim()) comments.set(path, commentText.trim())" for a
\* comment that was found (is truthy)
SetIfText(comments, path, c) ==
    IF c # "" /\ Trim(c) # "" THEN MapSet(comments, path, Trim(c)) ELSE comments

\* a || b || c on comment slots: the first truthy one
FirstTruthy(cs) ==
    IF \E i \in 1..Len(cs) : cs[i] # ""
    THEN cs[CHOOSE i \in 1..Len(cs) : cs[i] # "" /\ \A j \in 1..(i - 1) : cs[j] = ""]
    ELSE ""

IndexNames == <<"0", "1", "2", "3", "4">>
\* `${path}.${key}` / key
KeyPath(path, key) == IF path # "" THEN path \o "." \o key ELSE key
\* `${path}[${index}]` / `[${index}]`, index counted from 0
ItemPath(path, i) == path \o "[" \o IndexNames[i] \o "]"

RECURSIVE extractComments(_, _, _)
RECURSIVE ExtractPairs(_, _, _, _)
RECURSIVE ExtractItems(_, _, _, _)

\* body of map.items.forEach for one Pair
ExtractPair(pair, path, comments) ==
    LET keyPath == KeyPath(path, pair.key.value.v)
        \* key.comment, else the Pair's comment
        foundKey == FirstTruthy(<<pair.key.comment, pair.comment>>)
        c1 == SetIfText(comments, keyPath, foundKey)
        value == pair.value
        \* a Map value's commentBefore counts when nothing was found so far
        \* and it is not blank
        useBefore == /\ value # NoNode /\ isMap(value) /\ foundKey = ""
                     /\ value.commentBefore # "" /\ Trim(value.commentBefore) # ""
        c2 == IF useBefore THEN MapSet(c1, keyPath, Trim(value.commentBefore)) ELSE c1
        found == IF foundKey # "" THEN foundKey
                 ELSE IF useBefore THEN value.commentBefore ELSE ""
        c3 == IF found = "" THEN SetIfText(c2, keyPath, value.comment) ELSE c2
    IN IF value = NoNode THEN c1 ELSE extractComments(value, keyPath, c3)

ExtractPairs(items, i, path, comments) ==
    IF i > Len(items) THEN comments
    ELSE ExtractPairs(items, i + 1, path, ExtractPair(items[i], path, comments))

\* body of seq.items.forEach for one item
ExtractItem(item, i, path, comments) ==
    IF item = NoNode THEN comments
    ELSE extractComments(item, ItemPath(path, i),
            SetIfText(comments, ItemPath(path, i),
                      FirstTruthy(<<item.comment, item.commentBefore>>)))

ExtractItems(items, i, path, comments) ==
    IF i > Len(items) THEN comments
    ELSE ExtractItems(items, i + 1, path, ExtractItem(items[i], i, path, comments))

extractComments(node, path, comments) ==
    IF node = NoNode THEN comments
    ELSE IF isMap(node) THEN ExtractPairs(node.items, 1, path, comments)
    ELSE IF isSeq(node) THEN ExtractItems(node.items, 1, path, comments)
    ELSE IF path # ""
    THEN SetIfText(comments, path, FirstTruthy(<<node.comment, node.commentBefore>>))
    ELSE comments

\* extractComments(doc.contents): default path '' and a new Map
ExtractAll(node) == extractComments(node, "", <<>>)

(***************************************************************************)
(* Texts and the two parsers.  A text is '' (empty), blanks only, the      *)
(* YAML of a document (canon: written the way the yaml library writes it;  *)
(* otherwise the user's own layout), or text with a syntax error, from     *)
(* which the yaml library still recovers a document (doc.errors is set; it *)
(* does not throw) while js-yaml throws.                                   *)
(***************************************************************************)
EmptyText == [k |-> "empty"]
BlankText == [k |-> "blank"]
YamlOf(node, canon) == [k |-> "yaml", node |-> node, canon |-> canon]
BadText(node) == [k |-> "bad", node |-> node]

\* !text
IsEmptyString(text) == text.k = "empty"
\* !text || text.trim() === ''
IsBlank(text) == text.k \in {"empty", "blank"}

NoDoc == [k |-> "nodoc"]
\* YAML.parseDocument(text): a document with contents (null for blank text)
\* and its errors flag
parseDocument(text) ==
    [contents |-> IF text.k \in {"yaml", "bad"} THEN text.node ELSE NoNode,
     errors |-> text.k = "bad"]
\* yaml.load(val) of js-yaml in the editor: the message it throws, or ''
JsYamlError(text) == IF text.k = "bad" THEN "YAML error" ELSE ""

\* the serializer writes the slots of nodes; a Pair's own slots are not
\* part of the output
RECURSIVE Written(_)
Written(n) ==
    IF n = NoNode THEN ScalarN(NullV, "", "")
    ELSE IF isScalar(n) THEN n
    ELSE IF isMap(n)
         THEN [n EXCEPT !.items = [i \in 1..Len(n.items) |->
                  PairN(n.items[i].key, Written(n.items[i].value), "", "")]]
         ELSE [n EXCEPT !.items = [i \in 1..Len(n.items) |-> Written(n.items[i])]]
\* YAML.stringify(data, { indent: 2 })
Stringify(value) == YamlOf(valueToNode(value), TRUE)
\* yamlDocRef.current.toString(), for a document without errors
DocToString(doc) == YamlOf(Written(doc.contents), TRUE)

(***************************************************************************)
(* State.                                                                  *)
(*  oldNode, newValue, result, phase: one call of updateNodeValue (phase   *)
(*    "input" before the call, "done" after it, "off" in the controller);  *)
(*    also one publish of newValue (phase "publish", "published") and the  *)
(*    calls of extractComments on oldNode ("parsed", "handled",            *)
(*    "rendered").                                                         *)
(*  data: App's yamlData, the Value shown by the form.                     *)
(*  yamlText, parseError, commentsMap: state of YAMLVisualizer.            *)
(*  yamlDocRef, isUpdatingFromForm, isUpdatingFromEditor, isInitialized:   *)
(*    refs of YAMLVisualizer.                                              *)
(*  editorContent, isInternalUpdate: the Monaco model and the ref of       *)
(*    YAMLEditor.                                                          *)
(*  focus: tagName of document.activeElement.                              *)
(*  deferred: the pending 300 ms timers of the publish effect, oldest      *)
(*    first.                                                               *)
(*  formResets, editorResets: pending 100 ms timers that clear             *)
(*    isUpdatingFromForm / isUpdatingFromEditor.                           *)
(*  renderLoop: the render/effect cycle did not settle.                    *)
(*  segments: the node a navigation was requested for, as key and index    *)
(*    segments; highlightedPath: the prop of YAMLForm; expanded: the       *)
(*    form's set of expanded nodes; highlighted: the path of the element   *)
(*    carrying the highlight; cursor: the position of the editor's cursor. *)
(***************************************************************************)
VARIABLES oldNode, newValue, result, phase,
          data, yamlText, parseError, commentsMap,
          yamlDocRef, isUpdatingFromForm, isUpdatingFromEditor, isInitialized,
          editorContent, isInternalUpdate, focus,
          deferred, formResets, editorResets, renderLoop,
          segments, highlightedPath, expanded, highlighted, cursor

navVars == <<segments, highlightedPath, expanded, highlighted, cursor>>
recVars == <<oldNode, newValue, result, phase, navVars>>
ctlVars == <<data, yamlText, parseError, commentsMap,
             yamlDocRef, isUpdatingFromForm, isUpdatingFromEditor, isInitialized,
             editorContent, isInternalUpdate, focus,
             deferred, formResets, editorResets, renderLoop>>
vars == <<recVars, ctlVars>>

\* deferred when no 300 ms timer is pending, and the timer of a publish of
\* value (its closure holds the data of the effect run that started it)
NoTimer == <<>>
Timer(value) == [data |-> value]

\* no highlight, and the cursor at the start of the text
NoPath == ""
NoCursor == [lineNumber |-> 1, column |-> "start"]
\* the form and the editor right after mount: nothing expanded, nothing
\* highlighted
FormMounted ==
    /\ segments = <<>>
    /\ highlightedPath = NoPath
    /\ expanded = {}
    /\ highlighted = NoPath
    /\ cursor = NoCursor

\* the controller right after mount: the init effect wrote '' for {}, the
\* publish effect set isUpdatingFromForm and started its 100 ms reset timer
CtlMounted ==
    /\ data = MapV(<<>>)
    /\ yamlText = EmptyText
    /\ parseError = ""
    /\ commentsMap = <<>>
    /\ yamlDocRef = NoDoc
    /\ isUpdatingFromForm = TRUE
    /\ isUpdatingFromEditor = FALSE
    /\ isInitialized = TRUE
    /\ editorContent = EmptyText
    /\ isInternalUpdate = FALSE
    /\ focus = "BODY"
    /\ deferred = NoTimer
    /\ formResets = 1
    /\ editorResets = 0
    /\ renderLoop = FALSE
    /\ FormMounted

(***************************************************************************)
(* SpecReconcile: updateNodeValue applied to every input pair.             *)
(***************************************************************************)
InitReconcile ==
    /\ oldNode \in OldNodes
    /\ newValue \in NewValues
    /\ result = NoNode
    /\ phase = "input"
    /\ CtlMounted

Reconcile ==
    /\ phase = "input"
    /\ result' = updateNodeValue(oldNode, newValue)
    /\ phase' = "done"
    /\ UNCHANGED <<oldNode, newValue>>
    /\ UNCHANGED ctlVars
    /\ UNCHANGED navVars

NextReconcile == Reconcile

SpecReconcile == InitReconcile /\ [][NextReconcile]_vars

(***************************************************************************)
(* The sync controller (YAMLVisualizer) and the editor (YAMLEditor).       *)
(* A handler runs on a record of the whole state.  The fields nextText,    *)
(* nextData and dataSet hold the setYamlText / setYamlData calls that      *)
(* React applies at the next render; refs and timers change at once.       *)
(***************************************************************************)
\* dataToYaml(data, preserveComments): the text returned and yamlDocRef
\* after the call (its contents are replaced before toString is tried)
dataToYaml(s, value, preserveComments) ==
    LET \* YAML.stringify(data), or "yamlText || ''" of the outer catch
        plain == IF CanStringify(value) THEN Stringify(value) ELSE s.yamlText
    IN IF value.t = "map" /\ Len(value.items) = 0
       THEN [text |-> EmptyText, doc |-> s.yamlDocRef]
       ELSE IF preserveComments /\ s.yamlDocRef # NoDoc
       THEN LET updatedContents == updateNodeValue(s.yamlDocRef.contents, value)
                doc == [s.yamlDocRef EXCEPT !.contents = updatedContents]
            IN IF updatedContents = NoNode
               THEN [text |-> plain, doc |-> s.yamlDocRef]
               ELSE IF doc.errors
               \* toString() throws for a document with errors: plain text
               THEN [text |-> plain, doc |-> doc]
               ELSE [text |-> DocToString(doc), doc |-> doc]
       ELSE [text |-> plain, doc |-> s.yamlDocRef]

\* handleEditorChange without its onDataChange calls
handleEditorChangeNoPublish(s, text) ==
    IF s.isUpdatingFromForm THEN s
    ELSE LET t == [s EXCEPT !.isUpdatingFromEditor = TRUE,
                            !.nextText = text,
                            !.editorResets = @ + 1]
         IN IF IsBlank(text)
            THEN [t EXCEPT !.yamlDocRef = NoDoc,
                           !.parseError = "",
                           !.commentsMap = <<>>]
            ELSE LET doc == parseDocument(text)
                 IN [t EXCEPT !.yamlDocRef = doc,
                              !.parseError = "",
                              !.commentsMap = IF doc.contents # NoNode
                                              THEN ExtractAll(doc.contents)
                                              ELSE <<>>]

\* variant: handleEditorChange without its branch for empty text
handleEditorChangeParsesBlank(s, text) ==
    IF s.isUpdatingFromForm THEN s
    ELSE LET t == [s EXCEPT !.isUpdatingFromEditor = TRUE,
                            !.nextText = text,
                            !.editorResets = @ + 1]
             doc == parseDocument(text)
         IN [t EXCEPT !.yamlDocRef = doc,
                      !.nextData = toJS(doc.contents),
                      !.dataSet = TRUE,
                      !.parseError = "",
                      !.commentsMap = IF doc.contents # NoNode
                                      THEN ExtractAll(doc.contents)
                                      ELSE <<>>]

\* handleEditorChange of YAMLVisualizer
handleEditorChange(s, text) ==
    IF s.isUpdatingFromForm THEN s
    ELSE LET t == [s EXCEPT !.isUpdatingFromEditor = TRUE,
                            !.nextText = text,
                            !.editorResets = @ + 1]
         IN IF IsBlank(text)
            THEN [t EXCEPT !.yamlDocRef = NoDoc,
                           !.nextData = MapV(<<>>),
                           !.dataSet = TRUE,
                           !.parseError = "",
                           !.commentsMap = <<>>]
            ELSE LET doc == parseDocument(text)
                 IN [t EXCEPT !.yamlDocRef = doc,
                              !.nextData = toJS(doc.contents),
                              !.dataSet = TRUE,
                              !.parseError = "",
                              !.commentsMap = IF doc.contents # NoNode
                                              THEN ExtractAll(doc.contents)
                                              ELSE <<>>]

\* handleEditorChange of YAMLEditor (Monaco's onChange)
EditorOnChange(s, val) ==
    [handleEditorChange([s EXCEPT !.isInternalUpdate = TRUE], val)
       EXCEPT !.parseError = JsYamlError(val)]

\* variant: the editor is uncontrolled, a changed value prop is not written
WrapperSyncNone(s) == s

\* <Editor value={value} .../>: the @monaco-editor/react wrapper, a child of
\* YAMLEditor, writes a changed value prop into the editor before the
\* effects of YAMLEditor run, and suppresses onChange for that write
WrapperSync(s) ==
    [s EXCEPT !.editorContent = s.yamlText]

\* useEffect [value] of YAMLEditor; editor.setValue fires Monaco's onChange
EditorValueEffect(s) ==
    IF ~s.isInternalUpdate
    THEN IF s.focus = "INPUT" THEN s
         ELSE IF s.editorContent # s.yamlText
         THEN [EditorOnChange([s EXCEPT !.editorContent = s.yamlText], s.yamlText)
                 EXCEPT !.isInternalUpdate = FALSE]
         ELSE s
    ELSE [s EXCEPT !.isInternalUpdate = FALSE]

\* useEffect [yamlText, extractComments] of YAMLVisualizer
CommentsEffect(s) ==
    IF ~IsEmptyString(s.yamlText)
    THEN LET doc == parseDocument(s.yamlText)
         IN IF doc.contents # NoNode
            THEN [s EXCEPT !.commentsMap = ExtractAll(doc.contents),
                           !.yamlDocRef = doc]
            ELSE [s EXCEPT !.commentsMap = <<>>]
    ELSE IF s.yamlDocRef # NoDoc /\ s.yamlDocRef.contents # NoNode
    THEN [s EXCEPT !.commentsMap = ExtractAll(s.yamlDocRef.contents)]
    ELSE [s EXCEPT !.commentsMap = <<>>]

\* the initialisation effect [data, dataToYaml]
InitEffect(s) ==
    IF ~s.isInitialized /\ s.data # NullV
    THEN [s EXCEPT !.nextText = dataToYaml(s, s.data, FALSE).text,
                   !.isInitialized = TRUE]
    ELSE s

\* the body shared by the immediate branch and the 300 ms timer of the
\* publish effect
Publish(s, value) ==
    [s EXCEPT !.isUpdatingFromForm = TRUE,
              !.yamlDocRef = dataToYaml(s, value, TRUE).doc,
              !.nextText = dataToYaml(s, value, TRUE).text,
              !.formResets = @ + 1]

\* the publish effect without its isUpdatingFromEditor test
PublishEffectUnguarded(s) ==
    LET c == [s EXCEPT !.deferred = NoTimer]
    IN IF c.data # NullV
       THEN IF c.focus \in {"INPUT", "TEXTAREA"}
            THEN [c EXCEPT !.deferred = Append(c.deferred, Timer(c.data))]
            ELSE Publish(c, c.data)
       ELSE c

\* the publish effect without its cleanup (clearTimeout)
PublishEffectNoCleanup(s) ==
    IF ~s.isUpdatingFromEditor /\ s.data # NullV
    THEN IF s.focus \in {"INPUT", "TEXTAREA"}
         THEN [s EXCEPT !.deferred = Append(s.deferred, Timer(s.data))]
         ELSE Publish(s, s.data)
    ELSE s

\* the publish effect [data, dataToYaml]: its cleanup clears the pending
\* timer, then it publishes at once or defers
PublishEffect(s) ==
    LET c == [s EXCEPT !.deferred = NoTimer]
    IN IF ~c.isUpdatingFromEditor /\ c.data # NullV
       THEN IF c.focus \in {"INPUT", "TEXTAREA"}
            THEN [c EXCEPT !.deferred = Append(c.deferred, Timer(c.data))]
            ELSE Publish(c, c.data)
       ELSE c

\* largest number of renders followed within one event
MaxRenders == 4

\* render and run the effects until no state change is pending
RECURSIVE Commit(_, _)
Commit(s, fuel) ==
    LET textChanged == s.nextText # s.yamlText
        dataChanged == s.dataSet /\ (~IsScalarV(s.nextData) \/ s.nextData # s.data)
        rendered == [s EXCEPT !.yamlText = s.nextText,
                              !.data = IF dataChanged THEN s.nextData ELSE s.data,
                              !.nextData = IF dataChanged THEN s.nextData ELSE s.data,
                              !.dataSet = FALSE]
        e1 == IF textChanged THEN EditorValueEffect(WrapperSync(rendered))
              ELSE rendered
        e2 == IF textChanged THEN CommentsEffect(e1) ELSE e1
    IN IF ~textChanged /\ ~dataChanged THEN rendered
       ELSE IF fuel = 0 THEN [rendered EXCEPT !.renderLoop = TRUE]
       ELSE Commit(PublishEffect(InitEffect(e2)), fuel - 1)

\* the state as a record, nothing pending
Cur ==
    [data |-> data, yamlText |-> yamlText, parseError |-> parseError,
     commentsMap |-> commentsMap, yamlDocRef |-> yamlDocRef,
     isUpdatingFromForm |-> isUpdatingFromForm,
     isUpdatingFromEditor |-> isUpdatingFromEditor,
     isInitialized |-> isInitialized,
     editorContent |-> editorContent, isInternalUpdate |-> isInternalUpdate,
     focus |-> focus, deferred |-> deferred,
     formResets |-> formResets, editorResets |-> editorResets,
     renderLoop |-> renderLoop,
     nextText |-> yamlText, nextData |-> data, dataSet |-> FALSE]

\* the next state is the record s
Becomes(s) ==
    /\ data' = s.data
    /\ yamlText' = s.yamlText
    /\ parseError' = s.parseError
    /\ commentsMap' = s.commentsMap
    /\ yamlDocRef' = s.yamlDocRef
    /\ isUpdatingFromForm' = s.isUpdatingFromForm
    /\ isUpdatingFromEditor' = s.isUpdatingFromEditor
    /\ isInitialized' = s.isInitialized
    /\ editorContent' = s.editorContent
    /\ isInternalUpdate' = s.isInternalUpdate
    /\ focus' = s.focus
    /\ deferred' = s.deferred
    /\ formResets' = s.formResets
    /\ editorResets' = s.editorResets
    /\ renderLoop' = s.renderLoop

\* largest number of pending reset timers of one kind
MaxTimers == 2

\* the documents the user types, as the parser reads them: a mapping,
\* "a: 1 # c1", and a scalar at the root, "1 # c4" (the Value of the
\* first is a fresh object at every parse, that of the second a primitive,
\* which React compares by value)
CtlDocs ==
    <<MapN(<<PairN(ScalarN(StrV("a"), "", ""), ScalarN(NumV("1"), "", "c1"), "", "")>>, "", ""),
      ScalarN(NumV("1"), "", "c4")>>
TextDocs == {CtlDocs[i] : i \in 1..Len(CtlDocs)}
\* the texts the user can type: nothing, blanks, a document as the
\* serializer writes it or laid out otherwise, a document with a syntax error
CtlTexts ==
    {EmptyText, BlankText}
    \cup {YamlOf(n, canon) : n \in TextDocs, canon \in BOOLEAN}
    \cup {BadText(n) : n \in TextDocs}

\* the value with every scalar replaced by the string "x"
RECURSIVE Retyped(_)
Retyped(v) ==
    IF IsScalarV(v) THEN StrV("x")
    ELSE IF v.t = "map"
         THEN MapV([i \in 1..Len(v.items) |-> EntryV(v.items[i].k, Retyped(v.items[i].v))])
         ELSE SeqV([i \in 1..Len(v.items) |-> Retyped(v.items[i])])
\* the values the form can emit: the empty object, the values of those
\* documents, and the same with the scalars edited
FormValues ==
    {MapV(<<>>)} \cup {toJS(n) : n \in TextDocs} \cup {Retyped(toJS(n)) : n \in TextDocs}

\* the user changes the text in the editor
TypeText(text) ==
    /\ phase = "off"
    /\ text # editorContent
    /\ \E s \in {Commit(EditorOnChange([Cur EXCEPT !.editorContent = text,
                                                     !.focus = "TEXTAREA"], text),
                        MaxRenders)} :
         /\ s.editorResets <= MaxTimers
         /\ Becomes(s)
    /\ UNCHANGED recVars

\* the form emits a new value (onChange -> App.setYamlData)
FormChange(value) ==
    /\ phase = "off"
    /\ \E s \in {Commit([Cur EXCEPT !.nextData = value, !.dataSet = TRUE], MaxRenders)} :
         /\ s.formResets <= MaxTimers
         /\ Becomes(s)
    /\ UNCHANGED recVars

\* the focus moves: to a form input, to the editor's textarea, to a button
SetFocus(tag) ==
    /\ phase = "off"
    /\ tag # focus
    /\ focus' = tag
    /\ UNCHANGED <<data, yamlText, parseError, commentsMap, yamlDocRef,
                   isUpdatingFromForm, isUpdatingFromEditor, isInitialized,
                   editorContent, isInternalUpdate, deferred, formResets,
                   editorResets, renderLoop>>
    /\ UNCHANGED recVars

\* a 100 ms timer clears isUpdatingFromForm
FormResetFires ==
    /\ phase = "off"
    /\ formResets > 0
    /\ Becomes([Cur EXCEPT !.isUpdatingFromForm = FALSE, !.formResets = @ - 1])
    /\ UNCHANGED recVars

\* a 100 ms timer clears isUpdatingFromEditor
EditorResetFires ==
    /\ phase = "off"
    /\ editorResets > 0
    /\ Becomes([Cur EXCEPT !.isUpdatingFromEditor = FALSE, !.editorResets = @ - 1])
    /\ UNCHANGED recVars

\* the 300 ms timer of a deferred publish fires
DeferredFires ==
    /\ phase = "off"
    /\ deferred # NoTimer
    /\ \E s \in {Commit(Publish([Cur EXCEPT !.deferred = Tail(deferred)],
                                  Head(deferred).data),
                        MaxRenders)} :
         /\ s.formResets <= MaxTimers
         /\ Becomes(s)
    /\ UNCHANGED recVars

\* the keys in the ascending order of Array.prototype.sort
KeyOrder == <<"a", "b">>
\* sortObjectKeys of YAMLVisualizer
RECURSIVE sortObjectKeys(_)
\* variant: only the keys of the outermost mapping are sorted
sortObjectKeysShallow(obj) ==
    IF IsScalarV(obj) \/ obj.t # "map" THEN obj
    ELSE LET sortedKeys == SelectSeq(KeyOrder,
                               LAMBDA k : \E i \in 1..Len(obj.items) : obj.items[i].k = k)
             valueOf(k) == obj.items[CHOOSE i \in 1..Len(obj.items) : obj.items[i].k = k].v
         IN MapV([j \in 1..Len(sortedKeys) |-> EntryV(sortedKeys[j], valueOf(sortedKeys[j]))])
sortObjectKeys(obj) ==
    IF IsScalarV(obj) \/ obj.t = "func" THEN obj
    ELSE IF obj.t = "seq"
         THEN SeqV([i \in 1..Len(obj.items) |-> sortObjectKeys(obj.items[i])])
         ELSE LET sortedKeys == SelectSeq(KeyOrder,
                                    LAMBDA k : \E i \in 1..Len(obj.items) : obj.items[i].k = k)
                  valueOf(k) == obj.items[CHOOSE i \in 1..Len(obj.items) : obj.items[i].k = k].v
              IN MapV([j \in 1..Len(sortedKeys) |->
                         EntryV(sortedKeys[j], sortObjectKeys(valueOf(sortedKeys[j])))])

\* the templates the user can apply: a built-in one and a saved empty one
TemplateValues == {toJS(CtlDocs[1]), MapV(<<>>)}

\* formatYAML of YAMLEditor: yaml.dump(yaml.load(text)) of js-yaml
Formatted(text) == Stringify(toJS(text.node))
formatYAML(s) ==
    IF IsBlank(s.editorContent) THEN s
    ELSE IF JsYamlError(s.editorContent) # ""
    THEN [s EXCEPT !.parseError = JsYamlError(s.editorContent)]
    ELSE LET formatted == Formatted(s.editorContent)
             \* editor.setValue fires Monaco's onChange
             set == EditorOnChange([s EXCEPT !.isInternalUpdate = TRUE,
                                             !.editorContent = formatted], formatted)
         IN [handleEditorChange(set, formatted) EXCEPT !.parseError = ""]

\* the Clear button of the toolbar
Clear ==
    /\ phase = "off"
    /\ \E s \in {Commit([Cur EXCEPT !.focus = "BODY",
                                    !.isInitialized = FALSE,
                                    !.nextText = EmptyText,
                                    !.nextData = MapV(<<>>),
                                    !.dataSet = TRUE], MaxRenders)} :
         /\ s.formResets <= MaxTimers
         /\ Becomes(s)
    /\ UNCHANGED recVars

\* handleSort: the Sort button of the toolbar
Sort ==
    /\ phase = "off"
    /\ \E s \in {Commit([Cur EXCEPT !.focus = "BODY",
                                    !.nextData = sortObjectKeys(data),
                                    !.dataSet = TRUE], MaxRenders)} :
         /\ s.formResets <= MaxTimers
         /\ Becomes(s)
    /\ UNCHANGED recVars

\* handleApplyTemplate: a template is chosen in the template manager
ApplyTemplate(templateData) ==
    /\ phase = "off"
    /\ \E s \in {Commit([Cur EXCEPT !.focus = "BODY",
                                    !.nextData = templateData,
                                    !.dataSet = TRUE,
                                    !.nextText = dataToYaml(Cur, templateData, FALSE).text,
                                    !.parseError = "",
                                    !.isInitialized = FALSE], MaxRenders)} :
         /\ s.formResets <= MaxTimers
         /\ Becomes(s)
    /\ UNCHANGED recVars

\* the Format button of the toolbar: editorRef.current.format()
Format ==
    /\ phase = "off"
    /\ \E s \in {Commit(formatYAML([Cur EXCEPT !.focus = "BODY"]), MaxRenders)} :
         /\ s.editorResets <= MaxTimers
         /\ s.formResets <= MaxTimers
         /\ Becomes(s)
    /\ UNCHANGED recVars

Init ==
    /\ oldNode = NoNode
    /\ newValue = NullV
    /\ result = NoNode
    /\ phase = "off"
    /\ CtlMounted

Next ==
    \/ \E text \in CtlTexts : TypeText(text)
    \/ \E value \in FormValues : FormChange(value)
    \/ \E tag \in {"BODY", "INPUT", "TEXTAREA"} : SetFocus(tag)
    \/ FormResetFires
    \/ EditorResetFires
    \/ DeferredFires

Spec == Init /\ [][Next]_vars

\* the two views together with the buttons of the toolbar
NextTools ==
    \/ Next
    \/ Clear
    \/ Sort
    \/ \E templateData \in TemplateValues : ApplyTemplate(templateData)
    \/ Format

SpecTools == Init /\ [][NextTools]_vars

\* the timers of the browser fire: a pending setTimeout callback runs.
\* For the 300 ms timer weak fairness is written out, with "a timer is
\* pending" for the enabledness of DeferredFires.
SpecLive ==
    /\ Spec
    /\ WF_vars(FormResetFires)
    /\ WF_vars(EditorResetFires)
    /\ ([]<>(deferred = NoTimer) \/ []<><<DeferredFires>>_vars)

(***************************************************************************)
(* Vocabulary of the properties.                                           *)
(***************************************************************************)
\* the non-empty comments of a node's own two slots
OwnComments(n) == {n.commentBefore, n.comment} \ {""}

\* every comment found anywhere in a node: its own slots, the slots of the
\* Pairs and key Scalars of a map, and everything below
RECURSIVE CommentsIn(_)
CommentsIn(n) ==
    IF n = NoNode THEN {}
    ELSE IF isScalar(n) THEN OwnComments(n)
    ELSE IF isMap(n)
         THEN OwnComments(n) \cup
              UNION {OwnComments(n.items[i]) \cup OwnComments(n.items[i].key)
                       \cup CommentsIn(n.items[i].value) : i \in 1..Len(n.items)}
         ELSE OwnComments(n) \cup UNION {CommentsIn(n.items[i]) : i \in 1..Len(n.items)}


\* both inputs are mappings and the call has returned
MapOntoMap == phase = "done" /\ isMap(oldNode) /\ newValue.t = "map"
\* both inputs are sequences and the call has returned
SeqOntoSeq == phase = "done" /\ isSeq(oldNode) /\ newValue.t = "seq"

\* the same comment slots on two nodes, Pairs or key Scalars
SameSlots(x, y) == x.commentBefore = y.commentBefore /\ x.comment = y.comment


\* every comment of one old Pair: its own and its key's slots and its subtree
PairComments(pair) ==
    OwnComments(pair) \cup OwnComments(pair.key) \cup CommentsIn(pair.value)

C2_DeletedKeyGone ==
    MapOntoMap =>
      /\ isMap(result)
      /\ \A i \in 1..Len(oldNode.items) :
           ~InSeq(oldNode.items[i].key.value.v, KeysOfValue(newValue)) =>
             /\ ~InSeq(oldNode.items[i].key.value.v, KeysOfNode(result))
             /\ PairComments(oldNode.items[i]) \cap CommentsIn(result) = {}

\* a key whose nested subtree carried a comment was removed while another key
\* was put into the mapping
C2_Witness ==
    /\ MapOntoMap
    /\ isMap(result)
    /\ Len(result.items) > 0
    /\ \E i \in 1..Len(oldNode.items) :
         /\ ~InSeq(oldNode.items[i].key.value.v, KeysOfValue(newValue))
         /\ ~isScalar(oldNode.items[i].value)
         /\ Len(oldNode.items[i].value.items) > 0
         /\ \E c \in CommentsIn(oldNode.items[i].value) :
              c \notin OwnComments(oldNode.items[i].value)

(***************************************************************************)
(* C3 - idempotence.                                                       *)
(***************************************************************************)
\* C3: reconciling the result of updateNodeValue(old, v) against v again
\* returns that same node: values, entry order and every comment slot.
C3_Idempotent ==
    phase = "done" => updateNodeValue(result, newValue) = result

\* a commented old node of another value was reconciled, kept a comment, and
\* the second pass returned the same node
C3_Witness ==
    /\ phase = "done"
    /\ oldNode # NoNode
    /\ toJS(oldNode) # newValue
    /\ CommentsIn(result) # {}
    /\ ~IsScalarV(newValue)
    /\ updateNodeValue(result, newValue) = result

(***************************************************************************)
(* C4 - rule 4, a type change keeps the slot's comments.                   *)
(***************************************************************************)
\* C4 as claimed: when old is a node that is a scalar or whose shape differs
\* from that of the (non-null) new value, the result is the fresh node of the
\* new value carrying old's own commentBefore and comment and nothing else.
C4_TypeChangeKeepsSlotComment ==
    (/\ phase = "done"
     /\ oldNode # NoNode
     /\ newValue # NullV
     /\ \/ isScalar(oldNode)
        \/ isMap(oldNode) /\ newValue.t # "map"
        \/ isSeq(oldNode) /\ newValue.t # "seq")
    => result = [valueToNode(newValue) EXCEPT
                   !.commentBefore = oldNode.commentBefore,
                   !.comment = oldNode.comment]

(***************************************************************************)
(* C5 - rule 1, a null value carries no comment.                           *)
(***************************************************************************)
\* n has a bare Scalar null wherever v is null
RECURSIVE NullsAreBare(_, _)
NullsAreBare(v, n) ==
    IF v = NullV THEN n = ScalarN(NullV, "", "")
    ELSE IF v.t = "map"
    THEN /\ isMap(n)
         /\ Len(n.items) = Len(v.items)
         /\ \A i \in 1..Len(v.items) : NullsAreBare(v.items[i].v, n.items[i].value)
    ELSE IF v.t = "seq"
    THEN /\ isSeq(n)
         /\ Len(n.items) = Len(v.items)
         /\ \A i \in 1..Len(v.items) : NullsAreBare(v.items[i], n.items[i])
    ELSE TRUE

\* C5 as claimed: wherever the new value is null (root, mapping entry or
\* sequence element) the node produced there is a Scalar null without
\* commentBefore and comment, whatever old node stood there.
C5_NullCarriesNoComment ==
    phase = "done" => NullsAreBare(newValue, result)

(***************************************************************************)
(* C6 - rule 2, mapping order.                                             *)
(***************************************************************************)
\* C6: reconciling a mapping against a mapping yields a mapping whose keys are
\* new's keys in new's order, whose own comments are old's, and in which every
\* key not found in old has an entry without any comment.
C6_MapOrder ==
    MapOntoMap =>
      /\ isMap(result)
      /\ KeysOfNode(result) = KeysOfValue(newValue)
      /\ SameSlots(result, oldNode)
      /\ \A j \in 1..Len(result.items) :
           ~InSeq(result.items[j].key.value.v, KeysOfNode(oldNode)) =>
             PairComments(result.items[j]) = {}

\* old held two keys, new holds the same keys in the other order, and the
\* result follows new
C6_Witness ==
    /\ MapOntoMap
    /\ isMap(result)
    /\ Len(oldNode.items) = 2
    /\ Len(newValue.items) = 2
    /\ KeysOfValue(newValue) = <<KeysOfNode(oldNode)[2], KeysOfNode(oldNode)[1]>>
    /\ KeysOfNode(result) = KeysOfValue(newValue)
    /\ CommentsIn(result) # {}

(***************************************************************************)
(* C7 - rule 3, sequences are reconciled by index.                         *)
(***************************************************************************)
\* C7 as claimed: reconciling a sequence against a sequence yields a sequence
\* of new's length with old's own comments; element i below both lengths is
\* updateNodeValue(old[i], new[i]); elements past old's length are fresh and
\* comment-free; the comments of old elements past new's length are gone.
C7_SeqByIndex ==
    SeqOntoSeq =>
      /\ isSeq(result)
      /\ Len(result.items) = Len(newValue.items)
      /\ SameSlots(result, oldNode)
      /\ \A i \in 1..Len(result.items) :
           IF i <= Len(oldNode.items)
           THEN result.items[i] = updateNodeValue(oldNode.items[i], newValue.items[i])
           ELSE result.items[i] = valueToNode(newValue.items[i])
      /\ \A i \in 1..Len(oldNode.items) :
           i > Len(newValue.items) =>
             CommentsIn(oldNode.items[i]) \cap CommentsIn(result) = {}

(***************************************************************************)
(* C8 - reconciliation is total.                                           *)
(***************************************************************************)
\* n is a node with a child for every entry and element of v
RECURSIVE HasShapeOf(_, _)
HasShapeOf(n, v) ==
    /\ n # NoNode
    /\ IF IsScalarV(v) THEN isScalar(n)
       ELSE IF v.t = "map"
       THEN /\ isMap(n)
            /\ Len(n.items) = Len(v.items)
            /\ \A i \in 1..Len(v.items) :
                 /\ isScalar(n.items[i].key)
                 /\ HasShapeOf(n.items[i].value, v.items[i].v)
       ELSE /\ isSeq(n)
            /\ Len(n.items) = Len(v.items)
            /\ \A i \in 1..Len(v.items) : HasShapeOf(n.items[i], v.items[i])

\* C8: updateNodeValue never fails: it returns a node, never null, with a
\* child for every entry and element of the new value.
C8_Total ==
    phase = "done" => HasShapeOf(result, newValue)

\* a scalar was replaced by a mapping of two entries, one of them null
C8_Witness ==
    /\ phase = "done"
    /\ isScalar(oldNode)
    /\ newValue.t = "map"
    /\ Len(newValue.items) = 2
    /\ \E j \in 1..2 : newValue.items[j].v = NullV
    /\ isMap(result)
    /\ Len(result.items) = 2

\* C25: value fidelity of reconciliation.  For every old node (or none)
\* and every Value v the plain value of updateNodeValue(old, v) is v: the
\* same keys in the same order, the same elements, the same scalars.
C25_ValueFidelity ==
    phase = "done" => toJS(result) = newValue

\* a sequence was shortened and its remaining item changed
C25_Witness ==
    /\ phase = "done"
    /\ SeqOntoSeq
    /\ Len(oldNode.items) > Len(newValue.items)
    /\ Len(newValue.items) > 0
    /\ toJS(oldNode.items[1]) # newValue.items[1]
    /\ toJS(result) = newValue

(***************************************************************************)
(* The sync controller: form edits and text edits.                         *)
(***************************************************************************)
\* the form edit of the step publishes at once: nothing that defers or
\* skips the publish effect holds before it
PublishesAtOnce ==
    /\ focus \notin {"INPUT", "TEXTAREA"}
    /\ ~isUpdatingFromEditor

\* the text the code writes for a value without a document: '' for {}
PlainText(value) ==
    IF value = MapV(<<>>) THEN EmptyText ELSE Stringify(value)

\* the state after a form edit to value, as the claim describes it
ReconciledAndPublished(value) ==
    IF yamlDocRef = NoDoc \/ yamlDocRef.errors
    THEN yamlText' = PlainText(value)
    ELSE /\ yamlDocRef' # NoDoc
         /\ yamlDocRef'.contents = updateNodeValue(yamlDocRef.contents, value)
         /\ yamlText' = IF value = MapV(<<>>) THEN EmptyText
                        ELSE DocToString(yamlDocRef')

\* C9: when the form changes the Value while no INPUT/TEXTAREA has focus
\* and no editor update is in progress, then after the step the retained
\* document is the old one reconciled with the new Value and the text is
\* its serialization; without a retained document the text is the plain
\* serialization of the Value.  (Read in favour of the code where other
\* rules apply: the text of the Value {} is the empty text, and a retained
\* document that was parsed with errors cannot be serialized and takes the
\* plain fallback.)
C9_FormEditPublishes ==
    [][\A value \in FormValues :
         (value # data /\ PublishesAtOnce /\ data' = value /\ FormChange(value))
         => ReconciledAndPublished(value)]_vars

C11_ParseFailureKeepsState ==
    [][\A text \in CtlTexts :
         (text.k = "bad" /\ editorContent' = text /\ TypeText(text))
         => /\ parseError' # ""
            /\ data' = data
            /\ yamlDocRef' = yamlDocRef
            /\ commentsMap' = commentsMap]_vars

\* the step is a form edit (which leaves the focus where it is), a text
\* edit (which changes the editor's content, with the focus in the
\* editor's textarea), the firing of a timer
FormStep ==
    /\ focus' = focus
    /\ \E value \in FormValues : data' = value /\ FormChange(value)
TextStep ==
    /\ focus' = "TEXTAREA"
    /\ editorContent' # editorContent
    /\ \E text \in CtlTexts : editorContent' = text /\ TypeText(text)
ResetStep ==
    \/ formResets' < formResets /\ FormResetFires
    \/ editorResets' < editorResets /\ EditorResetFires
TimerStep == ResetStep \/ DeferredFires

\* publishing the current Value once more would leave the text as it is
Stable == dataToYaml(Cur, data, TRUE).text = yamlText

\* work still due without further input: the pending timers, a deferred
\* publish weighing more than the timers it starts
Pending ==
    (IF deferred = NoTimer THEN 0 ELSE IF Stable THEN 2 ELSE 4)
    + formResets + editorResets

C13_GuardScopedToPublish ==
    [][/\ ~isUpdatingFromForm' /\ ~isUpdatingFromEditor'
       /\ TextStep => yamlText' = editorContent'
       /\ (FormStep /\ focus \notin {"INPUT", "TEXTAREA"})
          => formResets' > formResets]_vars

\* the typed text 'a: 1 # c1' never reached the controller: the editor
\* shows it while text, document and Value are those of the form's publish
TextEditDropped ==
    /\ phase = "off"
    /\ isUpdatingFromForm
    /\ editorContent = YamlOf(CtlDocs[1], TRUE)
    /\ yamlText # editorContent
    /\ isInternalUpdate

\* the text stands for the value v (the empty text for {}) and the editor
\* displays it, in the state a step leads to
ShownNext(v) ==
    /\ editorContent' = yamlText'
    /\ IF v = MapV(<<>>) THEN yamlText' = EmptyText
       ELSE /\ yamlText'.k = "yaml"
            /\ toJS(parseDocument(yamlText').contents) = v

\* a form edit made while an INPUT/TEXTAREA has focus leaves a deferred
\* publish of its Value pending (TRUE for every other step)
DefersPublish(editorIdle) ==
    (FormStep /\ focus \in {"INPUT", "TEXTAREA"} /\ editorIdle)
    => deferred' = <<Timer(data')>>

\* a pending deferred publish goes away only by firing or by an edit, and
\* when it fires the text of its Value is written and displayed
DeferredPublishKept ==
    /\ (deferred # NoTimer /\ ~FormStep /\ ~TextStep /\ ~DeferredFires)
       => deferred' = deferred
    /\ DeferredFires
       => (data' = Head(deferred).data /\ ShownNext(Head(deferred).data))

\* C14: a Value changed by the form while an INPUT/TEXTAREA has focus is
\* published after the delay: the edit leaves a deferred publish pending,
\* which stays pending until it fires or another edit is made, does fire,
\* and on firing makes yamlText and the editor's content the text of that
\* Value.
C14_DeferredPublishHappens ==
    /\ [][DefersPublish(TRUE) /\ DeferredPublishKept]_vars
    /\ (deferred # NoTimer) ~> (deferred = NoTimer \/ Stable)

\* C15: deferred publishes coalesce.  At most one is pending, and it is
\* for the current Value; a form edit made while one is pending replaces
\* it by one for the new Value or publishes at once, and a text edit that
\* changes the Value cancels it; when it fires, the text written stands for
\* the current Value, so no stale Value is ever published.
C15_DeferredCoalesce ==
    /\ [](/\ Len(deferred) <= 1
          /\ deferred # NoTimer => Head(deferred).data = data)
    /\ [][/\ (FormStep /\ deferred # NoTimer)
             => \/ deferred' = <<Timer(data')>>
                \/ deferred' = NoTimer /\ formResets' > formResets
          /\ (TextStep /\ data' # data) => deferred' = NoTimer
          /\ DeferredFires
             => /\ data' = data
                /\ IF data = MapV(<<>>) THEN yamlText' = EmptyText
                   ELSE /\ yamlText'.k = "yaml"
                        /\ toJS(parseDocument(yamlText').contents) = data]_vars

\* after 'a: 1 # c1' was typed the form changed the Value to {a: "x"} in a
\* focused input: one deferred publish, for that Value, is pending and the
\* text is still the typed one
C15_Witness ==
    /\ phase = "off"
    /\ focus = "INPUT"
    /\ yamlText = YamlOf(CtlDocs[1], FALSE)
    /\ data = Retyped(toJS(CtlDocs[1]))
    /\ deferred = <<Timer(data)>>

\* C16: write authority is exclusive: isUpdatingFromForm and
\* isUpdatingFromEditor are never both set.
C16_MutuallyExclusive ==
    ~(isUpdatingFromForm /\ isUpdatingFromEditor)

(***************************************************************************)
(* One publish of a Value by the effect [data, dataToYaml], from a state   *)
(* drawn from the inputs: the retained document is absent, parsed without  *)
(* errors or recovered from a syntax error, and the Value is a plain one   *)
(* or one that YAML.stringify cannot write.                                *)
(***************************************************************************)
\* the retained documents and the text each was parsed from
SerDocs ==
    {[doc |-> NoDoc, text |-> EmptyText]}
    \cup {[doc |-> parseDocument(YamlOf(n, FALSE)), text |-> YamlOf(n, FALSE)] :
            n \in TextDocs}
    \cup {[doc |-> parseDocument(BadText(n)), text |-> BadText(n)] : n \in TextDocs}
\* the Values published: plain ones, a function, an object holding one
SerValues ==
    NewValues \cup {toJS(n) : n \in TextDocs}
    \cup {FuncV, MapV(<<EntryV("a", FuncV)>>)}

InitSerialize ==
    /\ oldNode = NoNode
    /\ result = NoNode
    /\ phase = "publish"
    /\ newValue \in SerValues
    /\ data = newValue
    /\ \E d \in SerDocs :
         /\ yamlDocRef = d.doc
         /\ yamlText = d.text
         /\ editorContent = d.text
    /\ parseError = ""
    /\ commentsMap = <<>>
    /\ isUpdatingFromForm = FALSE
    /\ isUpdatingFromEditor = FALSE
    /\ isInitialized = TRUE
    /\ isInternalUpdate = FALSE
    /\ focus = "BODY"
    /\ deferred = NoTimer
    /\ formResets = 0
    /\ editorResets = 0
    /\ renderLoop = FALSE
    /\ FormMounted

\* the immediate branch of the effect and the render that follows
Serialize ==
    /\ phase = "publish"
    /\ phase' = "published"
    /\ \E s \in {Commit(Publish(Cur, data), MaxRenders)} : Becomes(s)
    /\ UNCHANGED <<oldNode, newValue, result>>
    /\ UNCHANGED navVars

NextSerialize == Serialize

SpecSerialize == InitSerialize /\ [][NextSerialize]_vars

\* the comment-preserving serialization of newValue fails: no node is made
\* for it, or the retained document cannot be written
PreserveFails ==
    /\ yamlDocRef # NoDoc
    /\ \/ updateNodeValue(yamlDocRef.contents, newValue) = NoNode
       \/ yamlDocRef.errors

RECURSIVE Replaced(_, _, _)
\* the node with every comment slot that holds c holding d instead
Replaced(n, c, d) ==
    LET f(x) == IF x = c THEN d ELSE x
    IN IF n = NoNode THEN n
       ELSE IF isScalar(n)
       THEN [n EXCEPT !.commentBefore = f(@), !.comment = f(@)]
       ELSE IF isMap(n)
       THEN [n EXCEPT !.commentBefore = f(@), !.comment = f(@),
                      !.items = [i \in 1..Len(n.items) |->
                         PairN(Replaced(n.items[i].key, c, d),
                               Replaced(n.items[i].value, c, d),
                               f(n.items[i].commentBefore), f(n.items[i].comment))]]
       ELSE [n EXCEPT !.commentBefore = f(@), !.comment = f(@),
                      !.items = [i \in 1..Len(n.items) |->
                                   Replaced(n.items[i], c, d)]]

\* the document with the comment called name replaced by blanks
Blanked(n, name) == Replaced(n, name, BlankC)

\* documents with two commented paths, "- 1 # c1" / "- # c2" and
\* "a: 1 # c1" / "b: # c2", and the entry "a: [] # c2" whose key carries a
\* blank comment
ExtractFixtures ==
    {SeqN(<<ScalarN(NumV("1"), "", "c1"), ScalarN(NullV, "", "c2")>>, "", ""),
     MapN(<<PairN(ScalarN(StrV("a"), "", ""), ScalarN(NumV("1"), "", "c1"), "", ""),
            PairN(ScalarN(StrV("b"), "", ""), ScalarN(NullV, "", "c2"), "", "")>>,
          "", ""),
     MapN(<<PairN(ScalarN(StrV("a"), "", BlankC), SeqN(<<>>, "", "c2"), "", "")>>,
          "", "")}
ExtractDocs ==
    OldNodes \cup {Blanked(n, name) : n \in OldNodes, name \in {"c1", "c2"}}
    \cup ExtractFixtures

\* variant: the call consumes the comments it reads
ExtractCallStrips(node) ==
    [comments |-> ExtractAll(node), node |-> valueToNode(toJS(node))]
\* one call extractComments(doc.contents): the map it returns and the
\* document it leaves (no statement of the function writes to a node)
ExtractCall(node) == [comments |-> ExtractAll(node), node |-> node]

InitExtract ==
    /\ oldNode \in ExtractDocs
    /\ newValue = NullV
    /\ result = NoNode
    /\ phase = "parsed"
    /\ CtlMounted

\* setCommentsMap(extractComments(doc.contents)) of handleEditorChange
ExtractInHandler ==
    /\ phase = "parsed"
    /\ phase' = "handled"
    /\ commentsMap' = ExtractCall(oldNode).comments
    /\ oldNode' = ExtractCall(oldNode).node
    /\ UNCHANGED <<newValue, result>>
    /\ UNCHANGED navVars
    /\ UNCHANGED <<data, yamlText, parseError, yamlDocRef, isUpdatingFromForm,
                   isUpdatingFromEditor, isInitialized, editorContent,
                   isInternalUpdate, focus, deferred, formResets, editorResets,
                   renderLoop>>

\* setCommentsMap(extractComments(doc.contents)) of the effect [yamlText]
ExtractInEffect ==
    /\ phase = "handled"
    /\ phase' = "rendered"
    /\ commentsMap' = ExtractCall(oldNode).comments
    /\ oldNode' = ExtractCall(oldNode).node
    /\ UNCHANGED <<newValue, result>>
    /\ UNCHANGED navVars
    /\ UNCHANGED <<data, yamlText, parseError, yamlDocRef, isUpdatingFromForm,
                   isUpdatingFromEditor, isInitialized, editorContent,
                   isInternalUpdate, focus, deferred, formResets, editorResets,
                   renderLoop>>

NextExtract == ExtractInHandler \/ ExtractInEffect

SpecExtract == InitExtract /\ [][NextExtract]_vars

\* extractComments was called on oldNode and commentsMap is its result
Extracted == phase \in {"handled", "rendered"}

\* the path/comment pairs of a map
Recorded(comments) ==
    {<<comments[i].path, comments[i].text>> : i \in 1..Len(comments)}

\* a slot without a comment: missing or blank
Absent(c) == Trim(c) = ""
\* the trimmed text of the first slot that holds a comment, '' if none does
FirstPresent(cs) ==
    IF \A i \in 1..Len(cs) : Absent(cs[i]) THEN ""
    ELSE Trim(cs[CHOOSE i \in 1..Len(cs) :
                   ~Absent(cs[i]) /\ \A j \in 1..(i - 1) : Absent(cs[j])])

\* at most the one pair <<path, c>>
OnePair(path, c) == IF c = "" THEN {} ELSE {<<path, c>>}

RECURSIVE Resolved(_, _)
\* the slots of a mapping entry, highest precedence first: the key's
\* comment, the entry's comment, the value's commentBefore, the value's
\* trailing comment
EntrySlots(pair) ==
    <<pair.key.comment, pair.comment>>
    \o (IF pair.value = NoNode THEN <<>>
        ELSE <<pair.value.commentBefore, pair.value.comment>>)
\* the pairs the precedence rule gives for the paths below a node: one
\* comment per entry or element, the first present of its slots; scalars
\* end the descent
Resolved(node, path) ==
    IF node = NoNode \/ isScalar(node) THEN {}
    ELSE IF isMap(node)
    THEN UNION {
           LET pair == node.items[i]
               keyPath == KeyPath(path, pair.key.value.v)
           IN OnePair(keyPath, FirstPresent(EntrySlots(pair)))
              \cup Resolved(pair.value, keyPath) : i \in 1..Len(node.items)}
    ELSE UNION {
           LET item == node.items[i]
               itemPath == ItemPath(path, i)
           IN (IF item = NoNode THEN {}
               ELSE OnePair(itemPath,
                            FirstPresent(<<item.commentBefore, item.comment>>)))
              \cup Resolved(item, itemPath) : i \in 1..Len(node.items)}

\* C18: extraction precedence.  For every path the comment recorded is the
\* first present one of: the entry key's comment, the entry's comment, the
\* node's own commentBefore, the node's own trailing comment; nothing is
\* recorded for a path whose slots are all absent.
C18_ExtractionPrecedence ==
    Extracted => Recorded(commentsMap) = Resolved(oldNode, "")

\* the document with every blank comment removed
Unblanked(n) == Replaced(n, BlankC, "")

\* C19: a blank comment is absent.  No blank text is recorded, and the map
\* extracted is the one extracted from the same document with the blank
\* comments missing.
C19_BlankIsAbsent ==
    Extracted
    => /\ \A i \in 1..Len(commentsMap) : ~Absent(commentsMap[i].text)
       /\ commentsMap = ExtractAll(Unblanked(oldNode))

Quiescent == deferred = NoTimer /\ formResets = 0 /\ editorResets = 0

\* the extraction of the document the current text represents
DerivedComments ==
    LET doc == parseDocument(yamlText)
    IN IF doc.contents # NoNode THEN ExtractAll(doc.contents) ELSE <<>>

\* the paths of the nodes of a Value
RECURSIVE ValuePaths(_, _)
ValuePaths(v, path) ==
    IF IsScalarV(v) \/ v.t = "func" THEN {}
    ELSE IF v.t = "map"
         THEN UNION {{KeyPath(path, v.items[i].k)}
                     \cup ValuePaths(v.items[i].v, KeyPath(path, v.items[i].k)) :
                     i \in 1..Len(v.items)}
         ELSE UNION {{ItemPath(path, i)} \cup ValuePaths(v.items[i], ItemPath(path, i)) :
                     i \in 1..Len(v.items)}

\* C21: CommentMap is derived from the current document.  In every state
\* with no timer pending, after any sequence of text edits, form edits,
\* sort, template application and Clear, commentsMap is the extraction of
\* the document the current text represents, and every path in it
\* addresses a node of the current Value.
C21_CommentMapDerived ==
    Quiescent
    => /\ commentsMap = DerivedComments
       /\ \A i \in 1..Len(commentsMap) : commentsMap[i].path \in ValuePaths(data, "")

(***************************************************************************)
(* Paths and navigation.  The form names a node by a path string: keys     *)
(* joined by '.', sequence items written [i].  SpecNav: a document is      *)
(* loaded, the user may expand or collapse everything in the form, and one *)
(* navigation is requested: a highlight in the form or a locate in the     *)
(* editor.                                                                 *)
(***************************************************************************)
\* longest segment list of a requested path
MaxSegments == 3

\* a key of a mapping and an index of a sequence (counted from 0)
KeySeg(key) == [type |-> "key", key |-> key]
IndexSeg(index) == [type |-> "array", index |-> index]
\* the keys (one of them digits only) and the indices of requested paths
PathKeys == {"a", "1"}
PathIndices == {0, 1}
SegmentSet == {KeySeg(k) : k \in PathKeys} \cup {IndexSeg(i) : i \in PathIndices}
SegmentLists == UNION {[1..n -> SegmentSet] : n \in 0..MaxSegments}

\* itemPath of the form: path ? `${path}.${key}` : key for an entry,
\* path ? `${path}[${index}]` : `[${index}]` for an item
RECURSIVE EncodeFrom(_, _, _)
EncodeFrom(segs, i, path) ==
    IF i > Len(segs) THEN path
    ELSE EncodeFrom(segs, i + 1,
                    IF segs[i].type = "key" THEN KeyPath(path, segs[i].key)
                    ELSE ItemPath(path, segs[i].index + 1))
Encode(segs) == EncodeFrom(segs, 1, "")

\* str.split(/[\.\[\]]/).filter(Boolean)
RECURSIVE SplitParts(_, _, _)
SplitParts(str, cur, parts) ==
    LET closed == IF cur = "" THEN parts ELSE Append(parts, cur)
    IN IF str = "" THEN closed
       ELSE IF Head(str) \in {".", "[", "]"}
       THEN SplitParts(Tail(str), "", closed)
       ELSE SplitParts(Tail(str), cur \o Head(str), parts)
PathParts(str) == SplitParts(str, "", <<>>)

RECURSIVE AllDigits(_)
AllDigits(str) ==
    str = "" \/ (Head(str) \in {"0", "1", "2", "3", "4", "5", "6", "7", "8", "9"}
                 /\ AllDigits(Tail(str)))
\* !isNaN(parseInt(part)) && part === String(parseInt(part))
IsIndexText(part) ==
    LET digits == IF Head(part) = "-" THEN Tail(part) ELSE part
    IN /\ digits # ""
       /\ AllDigits(digits)
       /\ Len(digits) = 1 \/ Head(digits) # "0"
       /\ ~(Head(part) = "-" /\ digits = "0")

\* currentPath of the highlight effect after the parts 1..n
RECURSIVE Rebuilt(_, _)
Rebuilt(parts, n) ==
    IF n = 0 THEN ""
    ELSE IF n = 1 THEN parts[1]
    ELSE IF IsIndexText(parts[n])
         THEN Rebuilt(parts, n - 1) \o "[" \o parts[n] \o "]"
         ELSE Rebuilt(parts, n - 1) \o "." \o parts[n]
\* what the rebuild takes part n for
RebuiltSeg(parts, n) ==
    IF n > 1 /\ IsIndexText(parts[n])
    THEN IndexSeg(CHOOSE i \in 0..(Len(IndexNames) - 1) : IndexNames[i + 1] = parts[n])
    ELSE KeySeg(parts[n])
\* pathsToExpand of the highlight effect: the rebuilt paths of the parents
pathsToExpand(path) ==
    {Rebuilt(PathParts(path), n) : n \in 1..(Len(PathParts(path)) - 1)}

\* a line of the editor's text: its leading spaces, whether its trimmed
\* text starts with '-', and the text before its first ':' ("" without one)
Line(indent, dash, key) == [indent |-> indent, dash |-> dash, key |-> key]
\* written on a line of its own: a scalar, {} or []
IsLeaf(v) == IsScalarV(v) \/ Len(v.items) = 0
\* the lines of YAML.stringify(value, { indent: 2 }): block style, a
\* sequence under a key indented, the first line of an item after its dash
RECURSIVE LinesOf(_, _)
RECURSIVE LinesFrom(_, _, _)
LinesFrom(v, i, indent) ==
    IF i > Len(v.items) THEN <<>>
    ELSE (IF v.t = "map"
          THEN <<Line(indent, FALSE, v.items[i].k)>>
               \o (IF IsLeaf(v.items[i].v) THEN <<>> ELSE LinesOf(v.items[i].v, indent + 2))
          ELSE LET inner == LinesOf(v.items[i], indent + 2)
               IN <<[inner[1] EXCEPT !.indent = indent, !.dash = TRUE]>> \o Tail(inner))
         \o LinesFrom(v, i + 1, indent)
LinesOf(v, indent) ==
    IF IsLeaf(v) THEN <<Line(indent, FALSE, "")>> ELSE LinesFrom(v, 1, indent)
\* editor.getValue().split('\n'), for a text the serializer wrote
TextLines(text) ==
    IF text.k = "yaml" /\ text.canon THEN LinesOf(toJS(text.node), 0) ELSE <<>>

\* the path of the entries on the stack
StackPath(pathStack) == EncodeFrom(pathStack, 1, "")
\* "while (pathStack.length > 0 && top.indent >= indentLevel) pathStack.pop()"
RECURSIVE Popped(_, _)
Popped(pathStack, indentLevel) ==
    IF pathStack # <<>> /\ pathStack[Len(pathStack)].indent >= indentLevel
    THEN Popped(SubSeq(pathStack, 1, Len(pathStack) - 1), indentLevel)
    ELSE pathStack
\* arrayIndex: the dash lines of the same level above line j + 1, up to the
\* first line of a lower level
RECURSIVE ArrayIndex(_, _, _, _)
ArrayIndex(lines, j, indentLevel, count) ==
    IF j < 1 THEN count
    ELSE IF lines[j].indent \div 2 = indentLevel /\ lines[j].dash
    THEN ArrayIndex(lines, j - 1, indentLevel, count + 1)
    ELSE IF lines[j].indent \div 2 < indentLevel THEN count
    ELSE ArrayIndex(lines, j - 1, indentLevel, count)
\* the loop of getLineNumberFromPath from line i on; 0 for null
RECURSIVE ScanLines(_, _, _, _)
ScanLines(lines, i, pathStack, targetPath) ==
    IF i > Len(lines) THEN 0
    ELSE LET indentLevel == lines[i].indent \div 2
             stack == Popped(pathStack, indentLevel)
             arrayIndex == ArrayIndex(lines, i - 1, indentLevel, 0)
         IN IF lines[i].dash
            THEN IF ItemPath(StackPath(stack), arrayIndex + 1) = targetPath THEN i
                 ELSE ScanLines(lines, i + 1,
                                Append(stack, [type |-> "array", index |-> arrayIndex,
                                               indent |-> indentLevel]),
                                targetPath)
            ELSE IF lines[i].key # ""
            THEN IF KeyPath(StackPath(stack), lines[i].key) = targetPath THEN i
                 ELSE ScanLines(lines, i + 1,
                                Append(stack, [type |-> "key", key |-> lines[i].key,
                                               indent |-> indentLevel]),
                                targetPath)
            ELSE ScanLines(lines, i + 1, stack, targetPath)
\* getLineNumberFromPath of YAMLEditor; 0 for null
getLineNumberFromPath(text, targetPath) ==
    IF IsEmptyString(text) THEN 0 ELSE ScanLines(TextLines(text), 1, <<>>, targetPath)

\* locatePath of YAMLEditor: the cursor goes to the end of the line found
\* and the editor takes the focus
locatePath(s, cur, path) ==
    LET lineNumber == getLineNumberFromPath(s.editorContent, path)
    IN IF lineNumber # 0
       THEN [focus |-> "TEXTAREA", cursor |-> [lineNumber |-> lineNumber, column |-> "end"]]
       ELSE [focus |-> s.focus, cursor |-> cur]

\* the rows the form renders, by their data-path: the entries and items of
\* a container, and those of a child whose key is in the expanded set
RECURSIVE RenderedPaths(_, _, _)
RenderedPaths(v, path, exp) ==
    IF IsScalarV(v) THEN {}
    ELSE UNION {LET child == IF v.t = "map" THEN v.items[i].v ELSE v.items[i]
                    itemPath == IF v.t = "map" THEN KeyPath(path, v.items[i].k)
                                ELSE ItemPath(path, i)
                    fullKey == IF v.t = "map" THEN KeyPath(path, v.items[i].k)
                               ELSE IF path # "" THEN ItemPath(path, i)
                               ELSE IndexNames[i]
                IN {itemPath} \cup (IF ~IsScalarV(child) /\ fullKey \in exp
                                    THEN RenderedPaths(child, itemPath, exp)
                                    ELSE {}) :
                i \in 1..Len(v.items)}

\* collectExpandableKeys of YAMLForm
RECURSIVE collectExpandableKeys(_, _)
collectExpandableKeys(obj, prefix) ==
    IF IsScalarV(obj) THEN {}
    ELSE UNION {LET child == IF obj.t = "map" THEN obj.items[i].v ELSE obj.items[i]
                    key == IF obj.t = "map" THEN KeyPath(prefix, obj.items[i].k)
                           ELSE IF prefix # "" THEN ItemPath(prefix, i)
                           ELSE IndexNames[i]
                IN IF IsScalarV(child) THEN {}
                   ELSE {key} \cup collectExpandableKeys(child, key) :
                i \in 1..Len(obj.items)}

\* str ends with suffix
EndsWith(str, suffix) ==
    /\ Len(suffix) <= Len(str)
    /\ SubSeq(str, Len(str) - Len(suffix) + 1, Len(str)) = suffix
\* findElement of the highlight effect: the row of that path (the refs of
\* the top-level form, then the DOM), else a top-level row whose path is
\* the end of the target; NoPath for undefined
findElement(v, exp, targetPath) ==
    LET stored == RenderedPaths(v, "", {})
        targetParts == PathParts(targetPath)
        matches(storedPath) ==
            LET storedParts == PathParts(storedPath)
            IN /\ Len(storedParts) > 0
               /\ Len(targetParts) >= Len(storedParts)
               /\ SubSeq(targetParts, Len(targetParts) - Len(storedParts) + 1,
                         Len(targetParts)) = storedParts
               /\ EndsWith(targetPath, storedPath)
    IN IF targetPath \in RenderedPaths(v, "", exp) THEN targetPath
       ELSE IF \E p \in stored : matches(p) THEN CHOOSE p \in stored : matches(p)
       ELSE NoPath

\* the documents of SpecNav: nested mappings with a key of digits only, a
\* sequence at the root, a sequence in a sequence, a flat mapping
NavValues ==
    {MapV(<<EntryV("a", MapV(<<EntryV("1", MapV(<<EntryV("a", NumV("1"))>>))>>))>>),
     SeqV(<<MapV(<<EntryV("a", SeqV(<<NumV("1"), NumV("1")>>))>>), NumV("1")>>),
     MapV(<<EntryV("a", SeqV(<<SeqV(<<NumV("1"), NumV("1")>>)>>))>>),
     MapV(<<EntryV("a", NumV("1"))>>)}

InitNav ==
    /\ oldNode = NoNode
    /\ newValue = NullV
    /\ result = NoNode
    /\ phase = "nav"
    /\ data \in NavValues
    /\ yamlText = Stringify(data)
    /\ editorContent = yamlText
    /\ yamlDocRef = parseDocument(yamlText)
    /\ parseError = ""
    /\ commentsMap = <<>>
    /\ isUpdatingFromForm = FALSE
    /\ isUpdatingFromEditor = FALSE
    /\ isInitialized = TRUE
    /\ isInternalUpdate = FALSE
    /\ focus = "BODY"
    /\ deferred = NoTimer
    /\ formResets = 0
    /\ editorResets = 0
    /\ renderLoop = FALSE
    /\ FormMounted

\* expandAll of the form
ExpandAll ==
    /\ phase = "nav"
    /\ expanded' = collectExpandableKeys(data, "")
    /\ UNCHANGED <<segments, highlightedPath, highlighted, cursor>>
    /\ UNCHANGED <<oldNode, newValue, result, phase>>
    /\ UNCHANGED ctlVars

\* collapseAll of the form
CollapseAll ==
    /\ phase = "nav"
    /\ expanded' = {}
    /\ UNCHANGED <<segments, highlightedPath, highlighted, cursor>>
    /\ UNCHANGED <<oldNode, newValue, result, phase>>
    /\ UNCHANGED ctlVars

\* highlightedPath becomes the path of segs: the body of the highlight
\* effect up to its first setTimeout
HighlightRequest(segs) ==
    /\ phase = "nav"
    /\ Encode(segs) # NoPath
    /\ phase' = "highlight"
    /\ segments' = segs
    /\ highlightedPath' = Encode(segs)
    /\ expanded' = expanded \cup pathsToExpand(Encode(segs))
    /\ UNCHANGED <<highlighted, cursor>>
    /\ UNCHANGED <<oldNode, newValue, result>>
    /\ UNCHANGED ctlVars

\* the 300 ms timer of the highlight effect: findElement, applyHighlight
FindElementFires ==
    /\ phase = "highlight"
    /\ phase' = "highlighted"
    /\ highlighted' = findElement(data, expanded, highlightedPath)
    /\ UNCHANGED <<segments, highlightedPath, expanded, cursor>>
    /\ UNCHANGED <<oldNode, newValue, result>>
    /\ UNCHANGED ctlVars

\* onLocatePath(path) of a row of the form: locatePath of the editor
LocateRequest(segs) ==
    /\ phase = "nav"
    /\ Encode(segs) # NoPath
    /\ phase' = "located"
    /\ segments' = segs
    /\ cursor' = locatePath(Cur, cursor, Encode(segs)).cursor
    /\ focus' = locatePath(Cur, cursor, Encode(segs)).focus
    /\ UNCHANGED <<highlightedPath, expanded, highlighted>>
    /\ UNCHANGED <<oldNode, newValue, result>>
    /\ UNCHANGED <<data, yamlText, parseError, commentsMap, yamlDocRef,
                   isUpdatingFromForm, isUpdatingFromEditor, isInitialized,
                   editorContent, isInternalUpdate, deferred, formResets,
                   editorResets, renderLoop>>

\* the loop of getPathFromPosition from line i on, lineNumber being the
\* target line; NoPath for null
RECURSIVE PositionScan(_, _, _, _)
PositionScan(lines, i, pathStack, lineNumber) ==
    IF i > lineNumber THEN NoPath
    ELSE LET indentLevel == lines[i].indent \div 2
             stack == Popped(pathStack, indentLevel)
         IN IF lines[i].dash
            THEN IF i = lineNumber
                 THEN ItemPath(StackPath(stack),
                               ArrayIndex(lines, i - 1, indentLevel, 0) + 1)
                 \* an item line above the target leaves the stack as it is
                 ELSE PositionScan(lines, i + 1, stack, lineNumber)
            ELSE IF lines[i].key # ""
            THEN IF i = lineNumber
                 THEN KeyPath(StackPath(stack), lines[i].key)
                 ELSE PositionScan(lines, i + 1,
                                   Append(stack, [type |-> "key", key |-> lines[i].key,
                                                  indent |-> indentLevel]),
                                   lineNumber)
            ELSE PositionScan(lines, i + 1, stack, lineNumber)
\* getPathFromPosition of YAMLEditor; NoPath for null
getPathFromPosition(text, lineNumber) ==
    IF IsEmptyString(text) THEN NoPath
    ELSE IF lineNumber < 1 \/ lineNumber > Len(TextLines(text)) THEN NoPath
    ELSE PositionScan(TextLines(text), 1, <<>>, lineNumber)

\* the node written on each line of the text of a Value, as segments: the
\* key of a key line, the item of an item line
RECURSIVE LineSegs(_, _)
RECURSIVE LineSegsFrom(_, _, _)
LineSegsFrom(v, i, prefix) ==
    IF i > Len(v.items) THEN <<>>
    ELSE (IF v.t = "map"
          THEN <<Append(prefix, KeySeg(v.items[i].k))>>
               \o (IF IsLeaf(v.items[i].v) THEN <<>>
                   ELSE LineSegs(v.items[i].v, Append(prefix, KeySeg(v.items[i].k))))
          ELSE <<Append(prefix, IndexSeg(i - 1))>>
               \o Tail(LineSegs(v.items[i], Append(prefix, IndexSeg(i - 1)))))
         \o LineSegsFrom(v, i + 1, prefix)
LineSegs(v, prefix) ==
    IF IsLeaf(v) THEN <<prefix>> ELSE LineSegsFrom(v, 1, prefix)

\* the user clicks on a line of the editor: the cursor goes there and,
\* 50 ms later, the path of that line is handed to onPathClick (kept in
\* highlightedPath; segments is the node written on the line)
ClickLine(lineNumber) ==
    /\ phase = "nav"
    /\ lineNumber \in 1..Len(TextLines(editorContent))
    /\ phase' = "clicked"
    /\ cursor' = [lineNumber |-> lineNumber, column |-> "click"]
    /\ focus' = "TEXTAREA"
    /\ segments' = LineSegs(data, <<>>)[lineNumber]
    /\ highlightedPath' = getPathFromPosition(editorContent, lineNumber)
    /\ UNCHANGED <<expanded, highlighted>>
    /\ UNCHANGED <<oldNode, newValue, result>>
    /\ UNCHANGED <<data, yamlText, parseError, commentsMap, yamlDocRef,
                   isUpdatingFromForm, isUpdatingFromEditor, isInitialized,
                   editorContent, isInternalUpdate, deferred, formResets,
                   editorResets, renderLoop>>

\* str.includes(query)
Includes(str, query) ==
    \E i \in 1..(Len(str) - Len(query) + 1) : SubSeq(str, i, i + Len(query) - 1) = query
\* String(value) of a number, string or boolean
TextOf(v) == v.v
\* matchesSearch(key, value, currentPath) for a non-empty query
RECURSIVE matchesSearch(_, _, _)
matchesSearch(key, value, query) ==
    \/ Includes(key, query)
    \/ IF value.t = "null" THEN FALSE
       ELSE IF IsScalarV(value) THEN Includes(TextOf(value), query)
       ELSE IF value.t = "seq"
       THEN \E i \in 1..Len(value.items) :
               /\ value.items[i].t \in {"num", "str"}
               /\ Includes(TextOf(value.items[i]), query)
       ELSE \E i \in 1..Len(value.items) :
               matchesSearch(value.items[i].k, value.items[i].v, query)
\* hasMatchingChild(value, currentPath) for a non-empty query
RECURSIVE hasMatchingChild(_, _)
hasMatchingChild(value, query) ==
    IF value.t = "seq"
    THEN \E i \in 1..Len(value.items) :
            IF value.items[i].t \in {"map", "seq"}
            THEN hasMatchingChild(value.items[i], query)
            ELSE matchesSearch(IndexNames[i], value.items[i], query)
    ELSE IF value.t = "map"
    THEN \E i \in 1..Len(value.items) :
            IF value.items[i].v.t \in {"map", "seq"}
            THEN \/ matchesSearch(value.items[i].k, value.items[i].v, query)
                 \/ hasMatchingChild(value.items[i].v, query)
            ELSE matchesSearch(value.items[i].k, value.items[i].v, query)
    ELSE FALSE
\* parentPath of the search effect after the parts 1..n: a part is joined
\* with brackets when the path built so far contains '['
RECURSIVE ParentPath(_, _)
ParentPath(parts, n) ==
    IF n = 1 THEN parts[1]
    ELSE IF Includes(ParentPath(parts, n - 1), "[")
         THEN ParentPath(parts, n - 1) \o "[" \o parts[n] \o "]"
         ELSE ParentPath(parts, n - 1) \o "." \o parts[n]
\* expandMatchingPaths of the search effect: pathsToExpand
RECURSIVE expandMatchingPaths(_, _, _)
expandMatchingPaths(obj, currentPath, query) ==
    IF IsScalarV(obj) THEN {}
    ELSE UNION {LET child == IF obj.t = "map" THEN obj.items[i].v ELSE obj.items[i]
                    name == IF obj.t = "map" THEN obj.items[i].k ELSE IndexNames[i]
                    itemPath == IF obj.t = "map" THEN KeyPath(currentPath, name)
                                ELSE ItemPath(currentPath, i)
                    pathParts == PathParts(itemPath)
                IN (IF matchesSearch(name, child, query) \/ hasMatchingChild(child, query)
                    THEN {ParentPath(pathParts, n) : n \in 1..Len(pathParts)}
                    ELSE {})
                   \cup expandMatchingPaths(child, itemPath, query) :
                i \in 1..Len(obj.items)}

\* the texts typed into the search box
Queries == {"a", "1", "0"}
\* the user types a query into the search box: the auto-expand effect of
\* the top-level form
SearchRequest(query) ==
    /\ phase = "nav"
    /\ expanded' = expanded \cup expandMatchingPaths(data, "", query)
    /\ UNCHANGED <<segments, highlightedPath, highlighted, cursor>>
    /\ UNCHANGED <<oldNode, newValue, result, phase>>
    /\ UNCHANGED ctlVars

NextNav ==
    \/ ExpandAll
    \/ CollapseAll
    \/ \E query \in Queries : SearchRequest(query)
    \/ \E lineNumber \in 1..Len(TextLines(editorContent)) : ClickLine(lineNumber)
    \/ \E segs \in SegmentLists : HighlightRequest(segs)
    \/ FindElementFires
    \/ \E segs \in SegmentLists : LocateRequest(segs)

SpecNav == InitNav /\ [][NextNav]_vars

\* C22: path round trip.  For every segment list whose keys contain none
\* of '.', '[', ']', the path string the form builds for it, split on the
\* separators and rebuilt the way the highlight effect does, gives the
\* same segments (a key of digits stays a key, a leading index stays an
\* index) and the same string.
C22_PathRoundTrip ==
    highlightedPath # NoPath
    => LET pathParts == PathParts(highlightedPath)
       IN /\ [n \in 1..Len(pathParts) |-> RebuiltSeg(pathParts, n)] = segments
          /\ Rebuilt(pathParts, Len(pathParts)) = highlightedPath

\* the requested path addresses a node of the current document
Addressed(segs) == Encode(segs) \in ValuePaths(data, "")

\* C24: a failed navigation changes nothing.  A locate or highlight
\* request whose path addresses no node of the current document leaves
\* the editor's content and cursor, the text, the Value, the CommentMap
\* and the form's set of expanded nodes as they were.
C24_FailedNavigationChangesNothing ==
    [][(phase = "nav" /\ phase' \in {"highlight", "located"} /\ ~Addressed(segments'))
       => UNCHANGED <<editorContent, cursor, yamlText, data, commentsMap, expanded>>]_vars

\* C26: no text edit is dropped.  After every text change the user makes
\* in the editor, at whatever moment relative to an earlier form edit, the
\* controller's text is the typed text and, when that text parses, the
\* Value is its plain value.
C26_NoTextEditDropped ==
    [][TextStep
       => /\ yamlText' = editorContent'
          /\ editorContent'.k = "yaml"
             => data' = toJS(parseDocument(editorContent').contents)]_vars

\* the plain value of a text: {} for a blank one, else that of its document
PlainOf(text) ==
    IF IsBlank(text) THEN MapV(<<>>) ELSE toJS(parseDocument(text).contents)

\* C27: the two views converge.  In every state with no timer pending, no
\* input focused and no parse error, reached by any interleaving of text
\* edits, form edits, format and sort, the editor shows the controller's
\* text and the form shows the plain value of that text.
C27_ViewsConverge ==
    (Quiescent /\ focus \notin {"INPUT", "TEXTAREA"} /\ parseError = "")
    => /\ editorContent = yamlText
       /\ data = PlainOf(yamlText)

\* the scalars and empty containers of a Value, each with its path
RECURSIVE Leaves(_, _)
Leaves(v, path) ==
    IF IsLeaf(v) THEN {[path |-> path, value |-> v]}
    ELSE UNION {IF v.t = "map"
                THEN Leaves(v.items[i].v, KeyPath(path, v.items[i].k))
                ELSE Leaves(v.items[i], ItemPath(path, i)) :
                i \in 1..Len(v.items)}
\* what the form's pending Value has and the text does not: the unpublished
\* change of the form
FormsChange == Leaves(Head(deferred).data, "") \ Leaves(PlainOf(yamlText), "")

\* C28: a text edit does not overwrite an unpublished form edit.  When a
\* deferred publish of a form edit is pending and a text edit is taken
\* over, what the form changed is still in the Value afterwards.
C28_TextEditKeepsFormEdit ==
    [][(deferred # NoTimer /\ TextStep /\ yamlText' = editorContent')
       => FormsChange \subseteq Leaves(data', "")]_vars

C30_RemovedCommentStaysRemoved ==
    [][(data = MapV(<<>>) /\ yamlText = EmptyText /\ FormStep)
       => /\ commentsMap' = <<>>
          /\ yamlText'.k = "yaml" => CommentsIn(yamlText'.node) = {}]_vars

(***************************************************************************)
(* C31: the parse-error state tracks the current text.  In every reachable *)
(* state parseError is non-empty only if the current text fails to parse,  *)
(* where the current text is taken as generously as possible: the text     *)
(* state of the controller or the content of the editor.  In particular a  *)
(* step that replaces the text with the serialization of a Value (a form   *)
(* edit, Sort, a template, Clear) ends with an empty parseError.           *)
(***************************************************************************)
FailsToParse(text) == JsYamlError(text) # ""
C31_ParseErrorTracksText ==
    parseError # "" => (FailsToParse(yamlText) \/ FailsToParse(editorContent))

(***************************************************************************)
(* C32: the empty document.  A text edit that handleEditorChange accepts   *)
(* (it started a reset timer of the editor side) and that leaves the       *)
(* editor empty or with blanks only ends with the Value {}, no retained    *)
(* document, an empty CommentMap, no parse error and that text as the      *)
(* text state; dataToYaml maps the Value {} to the empty text in every     *)
(* reachable state, with and without comment preservation, and a step      *)
(* that publishes the Value {} ends with the empty text.                   *)
(***************************************************************************)
EditAccepted == editorResets' > editorResets
Published == formResets' > formResets
C32_EmptyDocument ==
    [][/\ (EditAccepted /\ IsBlank(editorContent'))
          => /\ data' = MapV(<<>>)
             /\ yamlDocRef' = NoDoc
             /\ commentsMap' = <<>>
             /\ parseError' = ""
             /\ yamlText' = editorContent'
       /\ \A preserveComments \in BOOLEAN :
            dataToYaml(Cur, MapV(<<>>), preserveComments).text = EmptyText
       /\ (Published /\ data' = MapV(<<>>)) => yamlText' = EmptyText]_vars
\* blanks were typed right after another text, both edits accepted
C32_Witness ==
    /\ phase = "off"
    /\ editorContent = BlankText
    /\ yamlText = BlankText
    /\ data = MapV(<<>>)
    /\ yamlDocRef = NoDoc
    /\ editorResets = 2

(***************************************************************************)
(* The key input of a mapping row (YAMLForm).  A mapping is a JavaScript   *)
(* object: its keys are enumerated with the integer-like keys first, in    *)
(* ascending numeric order, then the other keys in the order they were     *)
(* added; an assignment to a key the object has replaces the value where   *)
(* the key stands.                                                         *)
(***************************************************************************)
HasKey(obj, k) == \E i \in 1..Len(obj.items) : obj.items[i].k = k
IndexOfKey(obj, k) == CHOOSE i \in 1..Len(obj.items) : obj.items[i].k = k
\* the key is an array index ("0", "1", ...), and its number
IsIndexKey(k) == \E i \in 1..Len(IndexNames) : IndexNames[i] = k
NumberOf(k) == (CHOOSE i \in 1..Len(IndexNames) : IndexNames[i] = k) - 1
\* obj[k] = v
Assign(obj, k, v) ==
    IF HasKey(obj, k)
    THEN MapV([obj.items EXCEPT ![IndexOfKey(obj, k)] = EntryV(k, v)])
    ELSE IF IsIndexKey(k)
    THEN LET before == SelectSeq(obj.items,
                           LAMBDA e : IsIndexKey(e.k) /\ NumberOf(e.k) < NumberOf(k))
             after == SelectSeq(obj.items,
                           LAMBDA e : ~(IsIndexKey(e.k) /\ NumberOf(e.k) < NumberOf(k)))
         IN MapV(before \o <<EntryV(k, v)>> \o after)
    ELSE MapV(Append(obj.items, EntryV(k, v)))

\* newData after the keys 1..n of Object.keys(data) were visited
RECURSIVE RenamedUpTo(_, _, _, _)
RenamedUpTo(obj, n, k, newKey) ==
    IF n = 0 THEN MapV(<<>>)
    ELSE LET newData == RenamedUpTo(obj, n - 1, k, newKey)
         IN IF n = IndexOfKey(obj, k)
            THEN Assign(newData, newKey, obj.items[n].v)
            ELSE Assign(newData, obj.items[n].k, obj.items[n].v)
\* onChange of the key input of the row of key k, with newKey typed: the
\* object handed to onChange, or the data as it is when nothing is emitted
keyInputChange(obj, k, newKey) ==
    IF newKey # "" /\ newKey # k
    THEN RenamedUpTo(obj, Len(obj.items), k, newKey)
    ELSE obj

\* the keys of the mappings shown and the texts typed into a key input
RenameKeys == {"a", "b", "1", "2"}
TypedKeys == RenameKeys \cup {""}
\* the value of each key in the mapping loaded first
FirstValue(k) == IF k = "a" THEN NumV("1") ELSE IF k = "b" THEN StrV("x") ELSE NullV
\* the mappings loaded first: objects of one to three of the keys a, b, 1
RECURSIVE ObjectOf(_)
ObjectOf(ks) ==
    IF ks = <<>> THEN MapV(<<>>)
    ELSE Assign(ObjectOf(SubSeq(ks, 1, Len(ks) - 1)), ks[Len(ks)], FirstValue(ks[Len(ks)]))
RenameObjects ==
    {ObjectOf(ks) : ks \in {f \in UNION {[1..n -> {"a", "b", "1"}] : n \in 1..3} :
                              \A i, j \in DOMAIN f : i # j => f[i] # f[j]}}

InitRename ==
    /\ oldNode = NoNode
    /\ newValue = NullV
    /\ result = NoNode
    /\ phase = "off"
    /\ data \in RenameObjects
    /\ yamlText = Stringify(data)
    /\ editorContent = yamlText
    /\ yamlDocRef = parseDocument(yamlText)
    /\ parseError = ""
    /\ commentsMap = <<>>
    /\ isUpdatingFromForm = FALSE
    /\ isUpdatingFromEditor = FALSE
    /\ isInitialized = TRUE
    /\ isInternalUpdate = FALSE
    /\ focus = "INPUT"
    /\ deferred = NoTimer
    /\ formResets = 0
    /\ editorResets = 0
    /\ renderLoop = FALSE
    /\ FormMounted

\* the user types newKey into the key input of the row of key k
KeyInputChange(k, newKey) ==
    /\ phase = "off"
    /\ data.t = "map"
    /\ HasKey(data, k)
    /\ IF newKey # "" /\ newKey # k
       THEN \E s \in {Commit([Cur EXCEPT !.focus = "INPUT",
                                         !.nextData = keyInputChange(data, k, newKey),
                                         !.dataSet = TRUE], MaxRenders)} :
              /\ s.formResets <= MaxTimers
              /\ Becomes(s)
       ELSE Becomes([Cur EXCEPT !.focus = "INPUT"])
    /\ UNCHANGED recVars

NextRename ==
    \/ \E k \in RenameKeys, newKey \in TypedKeys : KeyInputChange(k, newKey)
    \/ DeferredFires
    \/ FormResetFires

SpecRename == InitRename /\ [][NextRename]_vars

(***************************************************************************)
(* C33: key rename is an in-place substitution.  Typing a non-empty key    *)
(* newKey different from k into the key input of the row of k gives a      *)
(* mapping with the same number of entries in the same order, newKey at    *)
(* the former position of k with the value of k, and every other entry as  *)
(* it was; typing the empty string changes nothing.                        *)
(***************************************************************************)
InPlace(obj, k, newKey, after) ==
    IF newKey = "" THEN after = obj
    ELSE /\ after.t = "map"
         /\ Len(after.items) = Len(obj.items)
         /\ \A i \in 1..Len(obj.items) :
              after.items[i] = IF obj.items[i].k = k
                               THEN EntryV(newKey, obj.items[i].v)
                               ELSE obj.items[i]
C33_RenameInPlace ==
    [][\A k \in RenameKeys, newKey \in TypedKeys :
         (newKey # k /\ KeyInputChange(k, newKey)) => InPlace(data, k, newKey, data')]_vars

(***************************************************************************)
(* SpecSort: a document is loaded, then the Sort button is pressed.        *)
(***************************************************************************)
\* the documents loaded: every old node of the reconciliation inputs
SortDocs == OldNodes \ {NoNode}

InitSort ==
    /\ oldNode = NoNode
    /\ newValue = NullV
    /\ result = NoNode
    /\ phase = "off"
    /\ \E doc \in SortDocs :
         /\ yamlText = YamlOf(doc, FALSE)
         /\ data = toJS(doc)
         /\ commentsMap = ExtractAll(doc)
    /\ editorContent = yamlText
    /\ yamlDocRef = parseDocument(yamlText)
    /\ parseError = ""
    /\ isUpdatingFromForm = FALSE
    /\ isUpdatingFromEditor = FALSE
    /\ isInitialized = TRUE
    /\ isInternalUpdate = FALSE
    /\ focus = "BODY"
    /\ deferred = NoTimer
    /\ formResets = 0
    /\ editorResets = 0
    /\ renderLoop = FALSE
    /\ FormMounted

NextSort ==
    \/ Sort
    \/ FormResetFires

SpecSort == InitSort /\ [][NextSort]_vars

\* key x comes before key y in the ascending order
KeyBefore(x, y) ==
    \E i, j \in 1..Len(KeyOrder) : i < j /\ KeyOrder[i] = x /\ KeyOrder[j] = y
\* w is v with the keys of every mapping in ascending order and nothing
\* else changed
RECURSIVE SortedCopy(_, _)
SortedCopy(v, w) ==
    IF IsScalarV(v) THEN w = v
    ELSE IF v.t = "seq"
    THEN /\ w.t = "seq"
         /\ Len(w.items) = Len(v.items)
         /\ \A i \in 1..Len(v.items) : SortedCopy(v.items[i], w.items[i])
    ELSE /\ w.t = "map"
         /\ Len(w.items) = Len(v.items)
         /\ \A i \in 1..Len(v.items) :
              \E j \in 1..Len(w.items) :
                 /\ w.items[j].k = v.items[i].k
                 /\ SortedCopy(v.items[i].v, w.items[j].v)
         /\ \A i, j \in 1..Len(w.items) : i < j => KeyBefore(w.items[i].k, w.items[j].k)
\* the paths of the keys and items of the Value whose value is null
NullPaths == {l.path : l \in {m \in Leaves(data, "") : m.value = NullV}}
\* the comment entry is in the CommentMap after the step
Kept(entry) == \E j \in 1..Len(commentsMap') : commentsMap'[j] = entry

RECURSIVE MatchingPaths(_, _, _)
MatchingPaths(v, path, query) ==
    IF IsScalarV(v) THEN {}
    ELSE UNION {LET child == IF v.t = "map" THEN v.items[i].v ELSE v.items[i]
                    name == IF v.t = "map" THEN v.items[i].k ELSE IndexNames[i]
                    itemPath == IF v.t = "map" THEN KeyPath(path, name)
                                ELSE ItemPath(path, i)
                IN (IF matchesSearch(name, child, query) THEN {itemPath} ELSE {})
                   \cup MatchingPaths(child, itemPath, query) :
                i \in 1..Len(v.items)}
\* the rows the form shows for the expanded set exp
Shown(exp) == RenderedPaths(data, "", exp)

(***************************************************************************)
(* C35: expansion keys are consistent.  The keys that expandAll, the       *)
(* search auto-expand and the highlight effect put in the expanded set are *)
(* the keys the renderer tests: after expandAll every node of the Value    *)
(* has its row shown, after a search every matching node has its row       *)
(* shown, and after a highlight request for a path that addresses a node   *)
(* that node's row is shown (all its ancestors are expanded).              *)
(***************************************************************************)
C35_ExpansionKeysConsistent ==
    [][/\ ExpandAll => Shown(expanded') = ValuePaths(data, "")
       /\ \A query \in Queries :
            SearchRequest(query) => MatchingPaths(data, "", query) \subseteq Shown(expanded')
       /\ (phase = "nav" /\ phase' = "highlight" /\ Addressed(segments'))
          => highlightedPath' \in Shown(expanded')]_vars

(***************************************************************************)
(* C36: line-to-path and path-to-line agree.  After a click on a line of   *)
(* the block-style text for which getPathFromPosition returned a path,     *)
(* that path is the path of the node written on the line (the key of a key *)
(* line, the item of an item line) and getLineNumberFromPath of it is the  *)
(* line clicked.                                                           *)
(***************************************************************************)
C36_LineAndPathAgree ==
    (phase = "clicked" /\ highlightedPath # NoPath)
    => /\ highlightedPath = Encode(segments)
       /\ getLineNumberFromPath(editorContent, highlightedPath) = cursor.lineNumber

\* the number of lines of the entries or items 1..n of a mapping or sequence
RECURSIVE LinesBefore(_, _)
LinesBefore(v, n) ==
    IF n = 0 THEN 0
    ELSE LinesBefore(v, n - 1)
         + (IF v.t = "map"
            THEN 1 + (IF IsLeaf(v.items[n].v) THEN 0 ELSE Len(LinesOf(v.items[n].v, 0)))
            ELSE Len(LinesOf(v.items[n], 0)))
\* the line on which the node at segs of the Value v is written, the text
\* of v starting on line start: a key on its line, an item on the line of
\* its dash, the first key or item of an item on that same line
RECURSIVE NodeLine(_, _, _)
NodeLine(v, segs, start) ==
    IF segs = <<>> THEN start
    ELSE IF v.t = "map"
    THEN LET i == CHOOSE j \in 1..Len(v.items) : v.items[j].k = segs[1].key
             keyLine == start + LinesBefore(v, i - 1)
         IN IF Len(segs) = 1 THEN keyLine
            ELSE NodeLine(v.items[i].v, Tail(segs), keyLine + 1)
    ELSE NodeLine(v.items[segs[1].index + 1], Tail(segs),
                  start + LinesBefore(v, segs[1].index))

(***************************************************************************)
(* C37: locate finds every node.  After a locate request for the path of   *)
(* a node of the Value (keys joined by '.', indices as [i]), the text      *)
(* being the block-style serialization of the Value, the cursor is at the  *)
(* end of the line on which that node's key or sequence item is written,   *)
(* also for a key written on the line of its item's dash.                  *)
(***************************************************************************)
C37_LocateFindsEveryNode ==
    (phase = "located" /\ Addressed(segments))
    => cursor = [lineNumber |-> NodeLine(data, segments, 1), column |-> "end"]

(***************************************************************************)
(* C38: a guard-reset timer belongs to its own publish.  The 100 ms timer  *)
(* started by one publish never clears the flag that a later publish set:  *)
(* as long as a reset timer of the form side is pending (the 100 ms of the *)
(* latest publish are not over) isUpdatingFromForm is set, and likewise    *)
(* isUpdatingFromEditor for the editor side.                               *)
(***************************************************************************)
C38_ResetTimerBelongsToPublish ==
    /\ formResets > 0 => isUpdatingFromForm
    /\ editorResets > 0 => isUpdatingFromEditor

====
